---- MODULE Spec2Model ----
(***************************************************************************)
(* Model of the claim169-core decoding pipeline: COSE envelope processing  *)
(* (pipeline/cose.rs), decompression with its size limit                   *)
(* (pipeline/decompress.rs), the decode orchestration (lib.rs) and the     *)
(* decoder builders of the JNI and WebAssembly bindings.                   *)
(***************************************************************************)
EXTENDS Integers, Sequences, FiniteSets, TLC

VARIABLES
    cose_call,      \* inputs of the last parse_and_verify / parse_with_resolver call
    cose_result,    \* its outcome: [res: Result<CoseResult>, calls: capability calls made]
    dz_call,        \* inputs of the last decompress call
    dz_result,      \* its outcome: Result<(Vec<u8>, DetectedCompression)>
    dec_call,       \* inputs of the last decode call
    dec_result,     \* its outcome: [res: Result<DecodeResult>, calls, stage]
    jni_inner,      \* Claim169Decoder.inner: Option<claim169::Decoder>
    jni_trace,      \* the calls made on the Claim169Decoder, with what they returned
    wasm_decoder,   \* the WasmDecoder the caller holds, None once moved and dropped
    wasm_trace,     \* the calls made on the WasmDecoder, with what they returned
    tr_call,        \* inputs of the last transform call
    tr_result,      \* its outcome: Result<Claim169>
    rt_call,        \* inputs of the last compress call
    rt_result,      \* what compress returned and what decompress made of it
    jni_mutex,      \* the thread that holds the guard of Claim169Decoder.inner
    jni_threads,    \* per thread: its call on the shared decoder and how far it got
    jni_order       \* the threads in the order in which their calls took effect

core_vars == <<cose_call, cose_result, dz_call, dz_result, dec_call, dec_result>>
binding_vars == <<jni_inner, jni_trace, wasm_decoder, wasm_trace>>
rest_vars == <<tr_call, tr_result, rt_call, rt_result, jni_mutex, jni_threads, jni_order>>
vars == <<cose_call, cose_result, dz_call, dz_result, dec_call, dec_result,
          jni_inner, jni_trace, wasm_decoder, wasm_trace, tr_call, tr_result,
          rt_call, rt_result, jni_mutex, jni_threads, jni_order>>

-----------------------------------------------------------------------------
(* Rust Option<T> and Result<T, E>                                         *)

None == <<>>
Some(x) == <<x>>
IsSome(o) == Len(o) = 1
Unwrap(o) == o[1]

-----------------------------------------------------------------------------
(* Errors.  A Claim169Error is its kind plus a short tag for its message;  *)
(* a CryptoError is its kind.                                              *)

E(kind, msg) == [kind |-> kind, msg |-> msg]

Ok(x) == [ok |-> TRUE, val |-> x, err |-> E("-", "-")]
Err(e) == [ok |-> FALSE, val |-> <<>>, err |-> e]

CryptoErrors ==
    {"InvalidKeyFormat", "KeyNotFound", "VerificationFailed", "DecryptionFailed",
     "SigningFailed", "EncryptionFailed", "UnsupportedAlgorithm", "Other"}

\* impl From<CryptoError> for Claim169Error (error.rs)
From_CryptoError(e) ==
    CASE e = "VerificationFailed"   -> E("SignatureInvalid", e)
      [] e = "DecryptionFailed"     -> E("DecryptionFailed", e)
      [] e = "UnsupportedAlgorithm" -> E("UnsupportedAlgorithm", e)
      [] e = "KeyNotFound"          -> E("KeyNotFound", e)
      [] e = "SigningFailed"        -> E("SignatureFailed", e)
      [] e = "EncryptionFailed"     -> E("EncryptionFailed", e)
      [] OTHER                      -> E("Crypto", e)

-----------------------------------------------------------------------------
(* CBOR / COSE data.  A byte string is represented by what it encodes:     *)
(* [k: the encoded structure, tag: the CBOR tag or NoTag, body: the value].*)

\* tag is an Option: None for an untagged encoding
COSE_SIGN1_TAG == 18
COSE_ENCRYPT0_TAG == 16

Bytes(k, tag, body) == [k |-> k, tag |-> tag, body |-> body]

\* coset::Header: alg is Option<Algorithm>; key_id and iv are byte vectors
\* (empty when absent); rest is the list of the remaining (label, value) pairs.
Header(alg, key_id, iv, rest) == [alg |-> alg, key_id |-> key_id, iv |-> iv, rest |-> rest]

Assigned(a) == [t |-> "Assigned", a |-> a]
TextAlg(a) == [t |-> "Text", a |-> a]

\* ciborium::Value: the variant t and its content v.  (TLC orders record fields by
\* first occurrence in the module; t occurs before v, so that values of different
\* variants are told apart by t.)
VBytes(b) == [t |-> "Bytes", v |-> b]
VText(s) == [t |-> "Text", v |-> s]
VArray(a) == [t |-> "Array", v |-> a]
VInteger(i) == [t |-> "Integer", v |-> i]

CoseSign1(protected, unprotected, payload, signature) ==
    [protected |-> protected, unprotected |-> unprotected,
     payload |-> payload, signature |-> signature]

CoseEncrypt0(protected, unprotected, ciphertext) ==
    [protected |-> protected, unprotected |-> unprotected, ciphertext |-> ciphertext]

\* CoseSign1::from_tagged_slice / from_slice, CoseEncrypt0::from_tagged_slice / from_slice
Sign1_from_tagged_slice(data) ==
    IF data.k = "sign1" /\ data.tag = Some(COSE_SIGN1_TAG) THEN Ok(data.body) ELSE Err(E("parse", "-"))

Sign1_from_slice(data) ==
    IF data.k = "sign1" /\ data.tag = None THEN Ok(data.body) ELSE Err(E("parse", "-"))

Encrypt0_from_tagged_slice(data) ==
    IF data.k = "encrypt0" /\ data.tag = Some(COSE_ENCRYPT0_TAG) THEN Ok(data.body) ELSE Err(E("parse", "-"))

Encrypt0_from_slice(data) ==
    IF data.k = "encrypt0" /\ data.tag = None THEN Ok(data.body) ELSE Err(E("parse", "-"))

-----------------------------------------------------------------------------
(* Header extraction (cose.rs)                                             *)

get_algorithm(header) ==
    IF IsSome(header.alg) /\ Unwrap(header.alg).t = "Assigned"
    THEN Some(Unwrap(header.alg).a)
    ELSE None

get_key_id(protected, unprotected) ==
    IF protected.key_id # <<>> THEN Some(protected.key_id)
    ELSE IF unprotected.key_id # <<>> THEN Some(unprotected.key_id)
    ELSE None

RECURSIVE FilterBytes(_)
FilterBytes(certs) ==
    IF certs = <<>> THEN <<>>
    ELSE (IF Head(certs).t = "Bytes" THEN <<Head(certs).v>> ELSE <<>>)
         \o FilterBytes(Tail(certs))

parse_x509_certs(value) ==
    CASE value.t = "Bytes" -> Some(<<value.v>>)
      [] value.t = "Array" ->
            LET result == FilterBytes(value.v)
            IN IF result = <<>> THEN None ELSE Some(result)
      [] OTHER -> None

parse_cert_hash(value) ==
    IF value.t = "Array" /\ Len(value.v) >= 2
    THEN LET a0 == value.v[1]
             a1 == value.v[2]
             algorithm == CASE a0.t = "Integer" -> Some([t |-> "Numeric", v |-> a0.v])
                            [] a0.t = "Text" -> Some([t |-> "Named", v |-> a0.v])
                            [] OTHER -> None
             hash_value == IF a1.t = "Bytes" THEN Some(a1.v) ELSE None
         IN IF IsSome(algorithm) /\ IsSome(hash_value)
            THEN Some([algorithm |-> Unwrap(algorithm), hash_value |-> Unwrap(hash_value)])
            ELSE None
    ELSE None

X509Headers_default == [x5bag |-> None, x5chain |-> None, x5t |-> None, x5u |-> None]

\* one (label, value) entry of the match in get_x509_headers
X509Entry(headers, label, value) ==
    CASE label = 32 /\ headers.x5bag = None ->
            [headers EXCEPT !.x5bag = parse_x509_certs(value)]
      [] label = 33 /\ headers.x5chain = None ->
            [headers EXCEPT !.x5chain = parse_x509_certs(value)]
      [] label = 34 /\ headers.x5t = None ->
            [headers EXCEPT !.x5t = parse_cert_hash(value)]
      [] label = 35 /\ headers.x5u = None ->
            IF value.t = "Text" THEN [headers EXCEPT !.x5u = Some(value.v)] ELSE headers
      [] OTHER -> headers

RECURSIVE X509Rest(_, _)
X509Rest(headers, rest) ==
    IF rest = <<>> THEN headers
    ELSE X509Rest(X509Entry(headers, Head(rest)[1], Head(rest)[2]), Tail(rest))

get_x509_headers(protected, unprotected) ==
    X509Rest(X509Rest(X509Headers_default, protected.rest), unprotected.rest)

\* build_encrypt0_aad: ["Encrypt0", protected bytes as received, external_aad = empty]
build_encrypt0_aad(protected_bytes) == <<"Encrypt0", protected_bytes, <<>>>>

\* CoseSign1::tbs_data(&[]): ["Signature1", protected, external_aad = empty, payload]
tbs_data(sign1) == <<"Signature1", sign1.protected, <<>>, sign1.payload>>

CoseResult(payload, status, algorithm, key_id, x509_headers) ==
    [payload |-> payload, verification_status |-> status, algorithm |-> algorithm,
     key_id |-> key_id, x509_headers |-> x509_headers]

\* What a call returns together with the capability calls it made, in order.
Out(res, calls) == [res |-> res, calls |-> calls]

VerifyCall(alg, key_id, data, signature) ==
    [cap |-> "verify", alg |-> alg, key_id |-> key_id, data |-> data, signature |-> signature]

DecryptCall(alg, key_id, nonce, aad, ciphertext) ==
    [cap |-> "decrypt", alg |-> alg, key_id |-> key_id, nonce |-> nonce, aad |-> aad,
     ciphertext |-> ciphertext]

-----------------------------------------------------------------------------
(* Envelope processing (cose.rs).  A verifier is the answer its verify()   *)
(* gives: "Ok" or a CryptoError; a decryptor is the Result its decrypt()   *)
(* gives; a resolver is the pair of Results of resolve_verifier and        *)
(* resolve_decryptor.                                                      *)

\* VerifyOutcome with every verifier error reported as a failed signature
VerifyOutcome_any_error_is_failed(answer, payload, algorithm, key_id, x509_headers) ==
    IF answer = "Ok"
    THEN Ok(CoseResult(payload, "Verified", algorithm, key_id, x509_headers))
    ELSE Ok(CoseResult(payload, "Failed", algorithm, key_id, x509_headers))

\* the match on v.verify(...) in process_sign1 / process_sign1_with_resolver
VerifyOutcome(answer, payload, algorithm, key_id, x509_headers) ==
    CASE answer = "Ok" ->
            Ok(CoseResult(payload, "Verified", algorithm, key_id, x509_headers))
      [] answer = "VerificationFailed" ->
            Ok(CoseResult(payload, "Failed", algorithm, key_id, x509_headers))
      [] OTHER -> Err(From_CryptoError(answer))

\* process_sign1 with the algorithm falling back to the unprotected header
process_sign1_unprotected_alg(sign1, verifier) ==
    LET protected_alg == get_algorithm(sign1.protected)
        algorithm == IF protected_alg # None THEN protected_alg
                     ELSE get_algorithm(sign1.unprotected)
        key_id == get_key_id(sign1.protected, sign1.unprotected)
        x509_headers == get_x509_headers(sign1.protected, sign1.unprotected)
    IN  IF sign1.payload = None
        THEN Out(Err(E("CoseParse", "no payload")), <<>>)
        ELSE IF verifier = None
        THEN Out(Ok(CoseResult(Unwrap(sign1.payload), "Skipped", algorithm, key_id,
                               x509_headers)), <<>>)
        ELSE IF algorithm = None
        THEN Out(Err(E("CoseParse", "missing algorithm")), <<>>)
        ELSE Out(VerifyOutcome(Unwrap(verifier), Unwrap(sign1.payload), algorithm, key_id,
                               x509_headers),
                 <<VerifyCall(Unwrap(algorithm), key_id, tbs_data(sign1), sign1.signature)>>)

process_sign1(sign1, verifier) ==
    LET algorithm == get_algorithm(sign1.protected)
        key_id == get_key_id(sign1.protected, sign1.unprotected)
        x509_headers == get_x509_headers(sign1.protected, sign1.unprotected)
    IN  IF sign1.payload = None
        THEN Out(Err(E("CoseParse", "no payload")), <<>>)
        ELSE IF verifier = None
        THEN Out(Ok(CoseResult(Unwrap(sign1.payload), "Skipped", algorithm, key_id,
                               x509_headers)), <<>>)
        ELSE IF algorithm = None
        THEN Out(Err(E("CoseParse", "missing algorithm")), <<>>)
        ELSE Out(VerifyOutcome(Unwrap(verifier), Unwrap(sign1.payload), algorithm, key_id,
                               x509_headers),
                 <<VerifyCall(Unwrap(algorithm), key_id, tbs_data(sign1), sign1.signature)>>)

process_sign1_with_resolver(sign1, resolver) ==
    LET algorithm == get_algorithm(sign1.protected)
        key_id == get_key_id(sign1.protected, sign1.unprotected)
        x509_headers == get_x509_headers(sign1.protected, sign1.unprotected)
    IN  IF sign1.payload = None
        THEN Out(Err(E("CoseParse", "no payload")), <<>>)
        ELSE IF algorithm = None
        THEN Out(Err(E("CoseParse", "missing algorithm")), <<>>)
        ELSE IF ~resolver.resolve_verifier.ok
        THEN Out(Err(E("Crypto", resolver.resolve_verifier.err.kind)), <<>>)
        ELSE Out(VerifyOutcome(resolver.resolve_verifier.val, Unwrap(sign1.payload),
                               algorithm, key_id, x509_headers),
                 <<VerifyCall(Unwrap(algorithm), key_id, tbs_data(sign1), sign1.signature)>>)

\* SelectNonce looking at the protected header first
SelectNonce_protected_first(encrypt0) ==
    IF encrypt0.protected.iv # <<>> THEN Some(encrypt0.protected.iv)
    ELSE IF encrypt0.unprotected.iv # <<>> THEN Some(encrypt0.unprotected.iv)
    ELSE None

\* SelectNonce handing on the (empty) protected IV instead of reporting its absence
SelectNonce_empty_iv(encrypt0) ==
    IF encrypt0.unprotected.iv # <<>> THEN Some(encrypt0.unprotected.iv)
    ELSE Some(encrypt0.protected.iv)

\* the IV/nonce selection of process_encrypt0 / process_encrypt0_with_resolver
SelectNonce(encrypt0) ==
    IF encrypt0.unprotected.iv # <<>> THEN Some(encrypt0.unprotected.iv)
    ELSE IF encrypt0.protected.iv # <<>> THEN Some(encrypt0.protected.iv)
    ELSE None

is_cose_sign1(plaintext) ==
    Sign1_from_tagged_slice(plaintext).ok \/ Sign1_from_slice(plaintext).ok

\* the Err(SignatureInvalid) arm after the recursive parse: the inner headers with
\* the whole plaintext as payload and status Failed
InnerFailed(plaintext) ==
    LET tagged == Sign1_from_tagged_slice(plaintext)
        inner_sign1 == IF tagged.ok THEN tagged ELSE Sign1_from_slice(plaintext)
    IN  IF inner_sign1.ok
        THEN CoseResult(plaintext, "Failed", get_algorithm(inner_sign1.val.protected),
                        get_key_id(inner_sign1.val.protected, inner_sign1.val.unprotected),
                        get_x509_headers(inner_sign1.val.protected,
                                         inner_sign1.val.unprotected))
        ELSE CoseResult(plaintext, "Failed", None, None, X509Headers_default)

\* AfterDecrypt reporting the outer Encrypt0's algorithm and key_id for a nested Sign1
AfterDecrypt_outer_headers(inner, plaintext, alg, key_id, x509_headers) ==
    IF is_cose_sign1(plaintext)
    THEN IF inner.ok THEN Ok([inner.val EXCEPT !.algorithm = Some(alg), !.key_id = key_id])
         ELSE IF inner.err.kind = "SignatureInvalid" THEN Ok(InnerFailed(plaintext))
         ELSE inner
    ELSE Ok(CoseResult(plaintext, "Skipped", Some(alg), key_id, x509_headers))

\* AfterDecrypt returning a raw plaintext without the outer X.509 headers
AfterDecrypt_drops_x509(inner, plaintext, alg, key_id, x509_headers) ==
    IF is_cose_sign1(plaintext)
    THEN IF inner.ok THEN inner
         ELSE IF inner.err.kind = "SignatureInvalid" THEN Ok(InnerFailed(plaintext))
         ELSE inner
    ELSE Ok(CoseResult(plaintext, "Skipped", Some(alg), key_id, X509Headers_default))

\* what follows a successful decrypt: the nested-Sign1 handling and the raw return
AfterDecrypt(inner, plaintext, alg, key_id, x509_headers) ==
    IF is_cose_sign1(plaintext)
    THEN IF inner.ok THEN inner
         ELSE IF inner.err.kind = "SignatureInvalid" THEN Ok(InnerFailed(plaintext))
         ELSE inner
    ELSE Ok(CoseResult(plaintext, "Skipped", Some(alg), key_id, x509_headers))

RECURSIVE parse_and_verify(_, _, _)
RECURSIVE parse_with_resolver(_, _)

\* process_encrypt0 decrypting once more a plaintext that is itself an Encrypt0
process_encrypt0_decrypts_nested(encrypt0, decryptor, verifier) ==
    LET algorithm == get_algorithm(encrypt0.protected)
        key_id == get_key_id(encrypt0.protected, encrypt0.unprotected)
        x509_headers == get_x509_headers(encrypt0.protected, encrypt0.unprotected)
        nonce == SelectNonce(encrypt0)
        aad == build_encrypt0_aad(encrypt0.protected)
    IN  IF decryptor = None
        THEN Out(Err(E("DecryptionFailed", "no decryptor")), <<>>)
        ELSE IF nonce = None
        THEN Out(Err(E("DecryptionFailed", "no IV")), <<>>)
        ELSE IF encrypt0.ciphertext = None
        THEN Out(Err(E("DecryptionFailed", "no ciphertext")), <<>>)
        ELSE IF algorithm = None
        THEN Out(Err(E("CoseParse", "missing algorithm")), <<>>)
        ELSE LET call == DecryptCall(Unwrap(algorithm), key_id, Unwrap(nonce), aad,
                                     Unwrap(encrypt0.ciphertext))
                 answer == Unwrap(decryptor)
             IN  IF ~answer.ok
                 THEN Out(Err(E("DecryptionFailed", answer.err.kind)), <<call>>)
                 ELSE LET plaintext == answer.val
                          tagged == Encrypt0_from_tagged_slice(plaintext)
                          nested == IF tagged.ok THEN tagged ELSE Encrypt0_from_slice(plaintext)
                          again == DecryptCall(Unwrap(get_algorithm(nested.val.protected)),
                                               get_key_id(nested.val.protected,
                                                          nested.val.unprotected),
                                               Unwrap(SelectNonce(nested.val)),
                                               build_encrypt0_aad(nested.val.protected),
                                               Unwrap(nested.val.ciphertext))
                          inner == IF is_cose_sign1(plaintext)
                                   THEN parse_and_verify(plaintext, verifier, None)
                                   ELSE IF nested.ok THEN Out(Err(E("-", "-")), <<again>>)
                                   ELSE Out(Err(E("-", "-")), <<>>)
                      IN  Out(AfterDecrypt(inner.res, plaintext, Unwrap(algorithm), key_id,
                                           x509_headers),
                              <<call>> \o inner.calls)

process_encrypt0(encrypt0, decryptor, verifier) ==
    LET algorithm == get_algorithm(encrypt0.protected)
        key_id == get_key_id(encrypt0.protected, encrypt0.unprotected)
        x509_headers == get_x509_headers(encrypt0.protected, encrypt0.unprotected)
        nonce == SelectNonce(encrypt0)
        aad == build_encrypt0_aad(encrypt0.protected)
    IN  IF decryptor = None
        THEN Out(Err(E("DecryptionFailed", "no decryptor")), <<>>)
        ELSE IF nonce = None
        THEN Out(Err(E("DecryptionFailed", "no IV")), <<>>)
        ELSE IF encrypt0.ciphertext = None
        THEN Out(Err(E("DecryptionFailed", "no ciphertext")), <<>>)
        ELSE IF algorithm = None
        THEN Out(Err(E("CoseParse", "missing algorithm")), <<>>)
        ELSE LET call == DecryptCall(Unwrap(algorithm), key_id, Unwrap(nonce), aad,
                                     Unwrap(encrypt0.ciphertext))
                 answer == Unwrap(decryptor)
             IN  IF ~answer.ok
                 THEN Out(Err(E("DecryptionFailed", answer.err.kind)), <<call>>)
                 ELSE LET plaintext == answer.val
                          inner == IF is_cose_sign1(plaintext)
                                   THEN parse_and_verify(plaintext, verifier, None)
                                   ELSE Out(Err(E("-", "-")), <<>>)
                      IN  Out(AfterDecrypt(inner.res, plaintext, Unwrap(algorithm), key_id,
                                           x509_headers),
                              <<call>> \o inner.calls)

process_encrypt0_with_resolver(encrypt0, resolver) ==
    LET algorithm == get_algorithm(encrypt0.protected)
        key_id == get_key_id(encrypt0.protected, encrypt0.unprotected)
        x509_headers == get_x509_headers(encrypt0.protected, encrypt0.unprotected)
        nonce == SelectNonce(encrypt0)
        aad == build_encrypt0_aad(encrypt0.protected)
    IN  IF algorithm = None
        THEN Out(Err(E("CoseParse", "missing algorithm")), <<>>)
        ELSE IF ~resolver.resolve_decryptor.ok
        THEN Out(Err(E("Crypto", resolver.resolve_decryptor.err.kind)), <<>>)
        ELSE IF nonce = None
        THEN Out(Err(E("DecryptionFailed", "no IV")), <<>>)
        ELSE IF encrypt0.ciphertext = None
        THEN Out(Err(E("DecryptionFailed", "no ciphertext")), <<>>)
        ELSE LET call == DecryptCall(Unwrap(algorithm), key_id, Unwrap(nonce), aad,
                                     Unwrap(encrypt0.ciphertext))
                 answer == resolver.resolve_decryptor.val
             IN  IF ~answer.ok
                 THEN Out(Err(E("DecryptionFailed", answer.err.kind)), <<call>>)
                 ELSE LET plaintext == answer.val
                          inner == IF is_cose_sign1(plaintext)
                                   THEN parse_with_resolver(plaintext, resolver)
                                   ELSE Out(Err(E("-", "-")), <<>>)
                      IN  Out(AfterDecrypt(inner.res, plaintext, Unwrap(algorithm), key_id,
                                           x509_headers),
                              <<call>> \o inner.calls)

\* parse_and_verify without the attempts on untagged encodings
parse_and_verify_tagged_only(data, verifier, decryptor) ==
    IF Sign1_from_tagged_slice(data).ok
    THEN process_sign1(Sign1_from_tagged_slice(data).val, verifier)
    ELSE IF Encrypt0_from_tagged_slice(data).ok
    THEN process_encrypt0(Encrypt0_from_tagged_slice(data).val, decryptor, verifier)
    ELSE Out(Err(E("CoseParse", "not COSE")), <<>>)

parse_and_verify(data, verifier, decryptor) ==
    IF Sign1_from_tagged_slice(data).ok
    THEN process_sign1(Sign1_from_tagged_slice(data).val, verifier)
    ELSE IF Encrypt0_from_tagged_slice(data).ok
    THEN process_encrypt0(Encrypt0_from_tagged_slice(data).val, decryptor, verifier)
    ELSE IF Sign1_from_slice(data).ok
    THEN process_sign1(Sign1_from_slice(data).val, verifier)
    ELSE IF Encrypt0_from_slice(data).ok
    THEN process_encrypt0(Encrypt0_from_slice(data).val, decryptor, verifier)
    ELSE Out(Err(E("CoseParse", "not COSE")), <<>>)

parse_with_resolver(data, resolver) ==
    IF Sign1_from_tagged_slice(data).ok
    THEN process_sign1_with_resolver(Sign1_from_tagged_slice(data).val, resolver)
    ELSE IF Encrypt0_from_tagged_slice(data).ok
    THEN process_encrypt0_with_resolver(Encrypt0_from_tagged_slice(data).val, resolver)
    ELSE IF Sign1_from_slice(data).ok
    THEN process_sign1_with_resolver(Sign1_from_slice(data).val, resolver)
    ELSE IF Encrypt0_from_slice(data).ok
    THEN process_encrypt0_with_resolver(Encrypt0_from_slice(data).val, resolver)
    ELSE Out(Err(E("CoseParse", "not COSE")), <<>>)

-----------------------------------------------------------------------------
(* Decompression (decompress.rs).  Byte strings are sequences of byte      *)
(* values.  The zlib and brotli streams are modelled in their stored form: *)
(* a header, the data bytes, a trailer that closes the stream.  A zlib     *)
(* stream has a second form, which is what makes it shorter than its       *)
(* input: a long run of one byte is coded as the byte and its count.       *)

ZLIB_MAGIC == 120
BUFFER_SIZE == 8192

Min(a, b) == IF a < b THEN a ELSE b

RECURSIVE SumBytes(_)
SumBytes(data) == IF data = <<>> THEN 0 ELSE Head(data) + SumBytes(Tail(data))

\* the checksum that closes a zlib stream
Adler(data) == SumBytes(data) % 256

\* a repetition of one byte long enough for its coded form to be the shorter one
IsLongRun(input) == Len(input) > 5 /\ \A i \in 1..Len(input) : input[i] = input[1]

\* compress_zlib: ZlibEncoder::write_all + finish
compress_zlib(input) ==
    IF IsLongRun(input) THEN <<ZLIB_MAGIC, 218, input[1], Len(input), Adler(input)>>
    ELSE <<ZLIB_MAGIC, 156>> \o input \o <<Adler(input)>>

\* compress_brotli: BrotliCompress
compress_brotli(input, quality) == <<11>> \o input \o <<3>>

\* ZlibDecoder::new(input): the bytes the decoder will deliver and whether the
\* stream is well formed (a malformed stream makes a read fail)
ZlibDecoder(input) ==
    IF Len(input) >= 3 /\ input[1] = ZLIB_MAGIC /\ input[2] = 156
    THEN LET data == SubSeq(input, 3, Len(input) - 1)
         IN  [data |-> data, valid |-> input[Len(input)] = Adler(data)]
    ELSE IF Len(input) = 5 /\ input[1] = ZLIB_MAGIC /\ input[2] = 218
    THEN LET data == [i \in 1..input[4] |-> input[3]]
         IN  [data |-> data, valid |-> input[5] = Adler(data)]
    ELSE [data |-> <<>>, valid |-> FALSE]

\* brotli::Decompressor::new(input, 8192)
BrotliDecompressor(input) ==
    IF Len(input) >= 2 /\ input[1] = 11
    THEN [data |-> SubSeq(input, 2, Len(input) - 1), valid |-> input[Len(input)] = 3]
    ELSE [data |-> <<>>, valid |-> FALSE]

LimitExceeded(max_bytes) == E("DecompressLimitExceeded", ToString(max_bytes))

\* ReadLoop with the limit reached one byte early
RECURSIVE ReadLoop_limit_reached_early(_, _, _, _, _, _)
ReadLoop_limit_reached_early(decoder, pos, output, total_read, max_bytes, read_size) ==
    LET bytes_read == Min(Min(read_size, BUFFER_SIZE), Len(decoder.data) - pos)
    IN  IF bytes_read = 0
        THEN IF decoder.valid THEN Ok(output) ELSE Err(E("Decompress", "corrupt stream"))
        ELSE IF total_read + bytes_read >= max_bytes
        THEN Err(LimitExceeded(max_bytes))
        ELSE ReadLoop_limit_reached_early(
                 decoder, pos + bytes_read,
                 output \o SubSeq(decoder.data, pos + 1, pos + bytes_read),
                 total_read + bytes_read, max_bytes, read_size)

\* the read loop of decompress_zlib / decompress_brotli: each read delivers at most
\* read_size bytes and never more than the buffer holds; pos is the decoder's
\* position in the decoded data
RECURSIVE ReadLoop(_, _, _, _, _, _)
ReadLoop(decoder, pos, output, total_read, max_bytes, read_size) ==
    LET bytes_read == Min(Min(read_size, BUFFER_SIZE), Len(decoder.data) - pos)
    IN  IF bytes_read = 0
        THEN IF decoder.valid THEN Ok(output) ELSE Err(E("Decompress", "corrupt stream"))
        ELSE IF total_read + bytes_read > max_bytes
        THEN Err(LimitExceeded(max_bytes))
        ELSE ReadLoop(decoder, pos + bytes_read,
                      output \o SubSeq(decoder.data, pos + 1, pos + bytes_read),
                      total_read + bytes_read, max_bytes, read_size)

decompress_zlib(input, max_bytes, read_size) ==
    ReadLoop(ZlibDecoder(input), 0, <<>>, 0, max_bytes, read_size)

decompress_brotli(input, max_bytes, read_size) ==
    ReadLoop(BrotliDecompressor(input), 0, <<>>, 0, max_bytes, read_size)

is_valid_cose_prefix(data) ==
    IF data = <<>> THEN FALSE
    ELSE CASE data[1] \in {210, 208} -> TRUE
           [] data[1] = 216 /\ Len(data) >= 2 -> data[2] \in {96, 97}
           [] OTHER -> FALSE

\* (Vec<u8>, DetectedCompression)
Decompressed(bytes, detected) == [bytes |-> bytes, detected |-> detected]

\* compress with Adaptive reporting zlib whatever it stored
compress_adaptive_reports_zlib(input, mode) ==
    CASE mode = "Zlib" -> Decompressed(compress_zlib(input), "Zlib")
      [] mode = "Brotli" -> Decompressed(compress_brotli(input, 5), "Brotli")
      [] mode = "None" -> Decompressed(input, "None")
      [] mode = "Adaptive" ->
            LET compressed == compress_zlib(input)
            IN  IF Len(compressed) < Len(input) THEN Decompressed(compressed, "Zlib")
                ELSE Decompressed(input, "Zlib")
      [] mode = "AdaptiveBrotli" ->
            LET compressed == compress_brotli(input, 5)
            IN  IF Len(compressed) < Len(input) THEN Decompressed(compressed, "Brotli")
                ELSE Decompressed(input, "None")

\* compress: the bytes and what was actually applied.  The brotli modes exist in
\* a build with the compression-brotli feature only.
compress(input, mode) ==
    CASE mode = "Zlib" -> Decompressed(compress_zlib(input), "Zlib")
      [] mode = "Brotli" -> Decompressed(compress_brotli(input, 5), "Brotli")
      [] mode = "None" -> Decompressed(input, "None")
      [] mode = "Adaptive" ->
            LET compressed == compress_zlib(input)
            IN  IF Len(compressed) < Len(input) THEN Decompressed(compressed, "Zlib")
                ELSE Decompressed(input, "None")
      [] mode = "AdaptiveBrotli" ->
            LET compressed == compress_brotli(input, 5)
            IN  IF Len(compressed) < Len(input) THEN Decompressed(compressed, "Brotli")
                ELSE Decompressed(input, "None")

\* decompress with a failed zlib attempt falling through to the raw bytes
decompress_zlib_failure_is_raw(input, max_bytes, env) ==
    IF input = <<>> THEN Ok(Decompressed(<<>>, "None"))
    ELSE LET decompressed == decompress_zlib(input, max_bytes, env.read_size)
         IN  IF input[1] = ZLIB_MAGIC /\ decompressed.ok
             THEN Ok(Decompressed(decompressed.val, "Zlib"))
             ELSE IF Len(input) > max_bytes
             THEN Err(LimitExceeded(max_bytes))
             ELSE Ok(Decompressed(input, "None"))

\* env.brotli: the build has the compression-brotli feature;
\* env.read_size: the number of bytes the decoder delivers per read
decompress(input, max_bytes, env) ==
    IF input = <<>> THEN Ok(Decompressed(<<>>, "None"))
    ELSE IF input[1] = ZLIB_MAGIC
    THEN LET decompressed == decompress_zlib(input, max_bytes, env.read_size)
         IN  IF decompressed.ok THEN Ok(Decompressed(decompressed.val, "Zlib"))
             ELSE decompressed
    ELSE LET brotli == decompress_brotli(input, max_bytes, env.read_size)
         IN  IF env.brotli /\ brotli.ok /\ is_valid_cose_prefix(brotli.val)
             THEN Ok(Decompressed(brotli.val, "Brotli"))
             ELSE IF env.brotli /\ ~brotli.ok /\ brotli.err.kind = "DecompressLimitExceeded"
             THEN Err(LimitExceeded(max_bytes))
             ELSE IF Len(input) > max_bytes
             THEN Err(LimitExceeded(max_bytes))
             ELSE Ok(Decompressed(input, "None"))

-----------------------------------------------------------------------------
(* i64 values.  The model keeps the shape of two's-complement arithmetic   *)
(* at a width of IntBits bits; a ciborium Integer may lie outside it.       *)

IntBits == 9

I64_MAX == 2^(IntBits - 1) - 1
I64_MIN == -(2^(IntBits - 1))
I64 == I64_MIN..I64_MAX

\* two's-complement wrap-around of a mathematical integer
Wrap(x) == ((x - I64_MIN) % (2^IntBits)) + I64_MIN

\* i64::try_from(i128::from(i))
i64_try_from(i) == IF i \in I64 THEN Some(i) ELSE None

-----------------------------------------------------------------------------
(* The claim 169 transform (pipeline/claim169.rs)                          *)

VMap(entries) == [t |-> "Map", v |-> entries]

extract_string(val) == IF val.t = "Text" THEN Some(val.v) ELSE None

extract_int(val) == IF val.t = "Integer" THEN i64_try_from(val.v) ELSE None

\* hex::decode on the text values of the model
hex_decode(text) ==
    CASE text = "" -> Some(<<>>)
      [] text = "00" -> Some(<<0>>)
      [] text = "ff" -> Some(<<255>>)
      [] OTHER -> None

extract_bytes(val) ==
    CASE val.t = "Bytes" -> Some(val.v)
      [] val.t = "Text" -> hex_decode(val.v)
      [] OTHER -> None

\* extract_int(..).and_then(|i| T::try_from(i).ok()) for an enum T whose values are
\* the numbers in range
extract_enum(val, range) ==
    LET i == extract_int(val)
    IN  IF IsSome(i) /\ Unwrap(i) \in range THEN i ELSE None

\* the loop of extract_best_quality_fingers keeping every u8
RECURSIVE FingersIn_any_u8(_)
FingersIn_any_u8(arr) ==
    IF arr = <<>> THEN <<>>
    ELSE (IF Head(arr).t = "Integer" /\ Head(arr).v \in 0..255 THEN <<Head(arr).v>> ELSE <<>>)
         \o FingersIn_any_u8(Tail(arr))

RECURSIVE FingersIn(_)
FingersIn(arr) ==
    IF arr = <<>> THEN <<>>
    ELSE (IF Head(arr).t = "Integer" /\ Head(arr).v \in 0..10 THEN <<Head(arr).v>> ELSE <<>>)
         \o FingersIn(Tail(arr))

extract_best_quality_fingers(val) ==
    IF val.t = "Array"
    THEN LET result == FingersIn(val.v)
         IN  IF result = <<>> THEN None ELSE Some(result)
    ELSE None

\* BiometricSubFormat::from_format_and_value (model/enums.rs); formats are
\* 0 Image, 1 Template, 2 Sound, 3 BioHash
from_format_and_value(format, value) ==
    CASE format = 0 /\ (value \in 0..6 \/ value \in 100..200) -> [t |-> "Image", v |-> value]
      [] format = 1 /\ (value \in 0..2 \/ value \in 100..200) -> [t |-> "Template", v |-> value]
      [] format = 2 /\ value \in 0..1 -> [t |-> "Sound", v |-> value]
      [] OTHER -> [t |-> "Raw", v |-> value]

Biometric(data, format, sub_format, issuer) ==
    [data |-> data, format |-> format, sub_format |-> sub_format, issuer |-> issuer]

\* the loop of extract_single_biometric over the entries of the map; the
\* accumulator holds data, format, sub_format_raw and issuer; the result is None
\* when a key is an integer outside i64
RECURSIVE BiometricEntries(_, _)
BiometricEntries(entries, acc) ==
    IF entries = <<>> THEN Some(acc)
    ELSE LET key == Head(entries)[1]
             val == Head(entries)[2]
         IN  IF key.t # "Integer" THEN BiometricEntries(Tail(entries), acc)
             ELSE IF i64_try_from(key.v) = None THEN None
             ELSE BiometricEntries(
                      Tail(entries),
                      CASE key.v = 0 -> [acc EXCEPT !.data = extract_bytes(val)]
                        [] key.v = 1 -> [acc EXCEPT !.format = extract_enum(val, 0..3)]
                        [] key.v = 2 -> [acc EXCEPT !.sub_format = extract_int(val)]
                        [] key.v = 3 -> [acc EXCEPT !.issuer = extract_string(val)]
                        [] OTHER -> acc)

extract_single_biometric(val) ==
    IF val.t # "Map" THEN None
    ELSE LET r == BiometricEntries(val.v, Biometric(None, None, None, None))
         IN  IF r = None \/ Unwrap(r).data = None THEN None
             ELSE LET acc == Unwrap(r)
                      sub_format ==
                          IF IsSome(acc.format) /\ IsSome(acc.sub_format)
                          THEN Some(from_format_and_value(Unwrap(acc.format),
                                                          Unwrap(acc.sub_format)))
                          ELSE None
                  IN  Some(Biometric(Unwrap(acc.data), acc.format, sub_format, acc.issuer))

\* filter_map of f over a list of values, f being extract_single_biometric or
\* cbor_to_json
RECURSIVE FilterMap(_, _)
FilterMap(f(_), arr) ==
    IF arr = <<>> THEN <<>> ELSE f(Head(arr)) \o FilterMap(f, Tail(arr))

extract_biometrics(val) ==
    CASE val.t = "Map" ->
            LET b == extract_single_biometric(val)
            IN  IF IsSome(b) THEN Some(b) ELSE None
      [] val.t = "Array" ->
            LET biometrics == FilterMap(extract_single_biometric, val.v)
            IN  IF biometrics = <<>> THEN None ELSE Some(biometrics)
      [] OTHER -> None

\* serde_json values
JNumber(n) == [t |-> "Number", v |-> n]
JNumberF64(f) == [t |-> "NumberF64", v |-> f]
JString(str) == [t |-> "String", v |-> str]
JBool(b) == [t |-> "Bool", v |-> b]
JNull == [t |-> "Null", v |-> <<>>]
JArray(a) == [t |-> "Array", v |-> a]
JObject(o) == [t |-> "Object", v |-> o]

\* base64 STANDARD.encode(b): the text that encodes b
base64_encode(b) == "base64:" \o ToString(b)

\* a map with (key, value) inserted, a later insert replacing an earlier one
Insert(map, key, value) == [k \in DOMAIN map \cup {key} |-> IF k = key THEN value ELSE map[k]]
EmptyMap == [k \in {} |-> <<>>]

RECURSIVE cbor_to_json(_)
RECURSIVE JsonMapEntries(_, _)

\* the loop of the Value::Map arm of cbor_to_json
JsonMapEntries(entries, json_map) ==
    IF entries = <<>> THEN json_map
    ELSE LET k == Head(entries)[1]
             v == cbor_to_json(Head(entries)[2])
         IN  IF k.t \notin {"Text", "Integer"} \/ v = None
             THEN JsonMapEntries(Tail(entries), json_map)
             ELSE JsonMapEntries(
                      Tail(entries),
                      Insert(json_map, IF k.t = "Text" THEN k.v ELSE ToString(k.v), Unwrap(v)))

cbor_to_json(val) ==
    CASE val.t = "Integer" ->
            IF i64_try_from(val.v) = None THEN None ELSE Some(JNumber(val.v))
      [] val.t = "Text" -> Some(JString(val.v))
      [] val.t = "Bool" -> Some(JBool(val.v))
      [] val.t = "Null" -> Some(JNull)
      [] val.t = "Float" -> IF val.v = "finite" THEN Some(JNumberF64(val.v)) ELSE None
      [] val.t = "Bytes" -> Some(JString(base64_encode(val.v)))
      [] val.t = "Array" -> Some(JArray(FilterMap(cbor_to_json, val.v)))
      [] val.t = "Map" -> Some(JObject(JsonMapEntries(val.v, EmptyMap)))
      [] OTHER -> None

\* keys whose field is an Option<String>
StringKeys == (1..8) \cup (10..13) \cup {15} \cup (19..23)
BiometricKeys == 50..65

\* Claim169::default(): a field is named by its claim key
Claim169_default ==
    [fields |-> [k \in (1..23) \cup BiometricKeys |-> None], unknown_fields |-> EmptyMap]

\* the match on key_int in transform
TransformEntry(claim, key_int, val, skip_biometrics) ==
    CASE key_int \in StringKeys -> [claim EXCEPT !.fields[key_int] = extract_string(val)]
      [] key_int \in {9, 14} -> [claim EXCEPT !.fields[key_int] = extract_enum(val, 1..3)]
      [] key_int = 16 -> [claim EXCEPT !.fields[key_int] = extract_bytes(val)]
      [] key_int = 17 -> [claim EXCEPT !.fields[key_int] = extract_enum(val, 1..4)]
      [] key_int = 18 ->
            [claim EXCEPT !.fields[key_int] = extract_best_quality_fingers(val)]
      [] key_int \in BiometricKeys /\ ~skip_biometrics ->
            [claim EXCEPT !.fields[key_int] = extract_biometrics(val)]
      [] key_int \in BiometricKeys /\ skip_biometrics -> claim
      [] OTHER ->
            LET json_val == cbor_to_json(val)
            IN  IF IsSome(json_val)
                THEN [claim EXCEPT
                         !.unknown_fields = Insert(@, key_int, Unwrap(json_val))]
                ELSE claim

\* the loop of transform passing over a key that is no i64, as the loop of
\* extract_single_biometric passes over a key that is no integer
RECURSIVE TransformEntries_skips_bad_key(_, _, _)
TransformEntries_skips_bad_key(entries, claim, skip_biometrics) ==
    IF entries = <<>> THEN Ok(claim)
    ELSE LET key == Head(entries)[1]
             val == Head(entries)[2]
         IN  IF key.t # "Integer"
             THEN Err(E("Claim169Invalid", "keys must be integers"))
             ELSE IF i64_try_from(key.v) = None
             THEN TransformEntries_skips_bad_key(Tail(entries), claim, skip_biometrics)
             ELSE TransformEntries_skips_bad_key(
                      Tail(entries), TransformEntry(claim, key.v, val, skip_biometrics),
                      skip_biometrics)

\* the loop of transform over the entries of the map
RECURSIVE TransformEntries(_, _, _)
TransformEntries(entries, claim, skip_biometrics) ==
    IF entries = <<>> THEN Ok(claim)
    ELSE LET key == Head(entries)[1]
             val == Head(entries)[2]
         IN  IF key.t # "Integer"
             THEN Err(E("Claim169Invalid", "keys must be integers"))
             ELSE IF i64_try_from(key.v) = None
             THEN Err(E("Claim169Invalid", "key out of valid range"))
             ELSE TransformEntries(Tail(entries),
                                   TransformEntry(claim, key.v, val, skip_biometrics),
                                   skip_biometrics)

transform(value, skip_biometrics) ==
    IF value.t # "Map"
    THEN Err(E("Claim169Invalid", "not a CBOR map"))
    ELSE TransformEntries(value.v, Claim169_default, skip_biometrics)

\* BiometricSubFormat::to_value (model/enums.rs): every variant carries its number
to_value(sub_format) == sub_format.v

\* the entries a sequence of optional entries stands for
RECURSIVE Flatten(_)
Flatten(opts) == IF opts = <<>> THEN <<>> ELSE Head(opts) \o Flatten(Tail(opts))

biometric_to_cbor(bio) ==
    VMap(Flatten(<<
        Some(<<VInteger(0), VBytes(bio.data)>>),
        IF IsSome(bio.format) THEN Some(<<VInteger(1), VInteger(Unwrap(bio.format))>>) ELSE None,
        IF IsSome(bio.sub_format)
        THEN Some(<<VInteger(2), VInteger(to_value(Unwrap(bio.sub_format)))>>) ELSE None,
        IF IsSome(bio.issuer) THEN Some(<<VInteger(3), VText(Unwrap(bio.issuer))>>) ELSE None>>))

\* the entry to_cbor pushes for the field of a key: add_string!, add_int!,
\* add_bytes!, the array of fingers and add_biometrics!
ToCborEntry(claim, key) ==
    LET field == claim.fields[key]
    IN  IF field = None THEN None
        ELSE LET v == Unwrap(field)
             IN  Some(<<VInteger(key),
                        CASE key \in StringKeys -> VText(v)
                          [] key \in {9, 14, 17} -> VInteger(v)
                          [] key = 16 -> VBytes(v)
                          [] key = 18 -> VArray([i \in 1..Len(v) |-> VInteger(v[i])])
                          [] key \in BiometricKeys ->
                                VArray([i \in 1..Len(v) |-> biometric_to_cbor(v[i])])>>)

\* the keys in the order to_cbor pushes them: 1..23, then 50..65
ToCborKeys == [i \in 1..39 |-> IF i <= 23 THEN i ELSE i + 26]

to_cbor(claim) == VMap(Flatten([i \in 1..Len(ToCborKeys) |-> ToCborEntry(claim, ToCborKeys[i])]))

-----------------------------------------------------------------------------
(* The decode orchestration (lib.rs).  A QR text is represented by what it *)
(* encodes: whether it is well-formed Base45, the bytes it decodes to, and *)
(* the CBOR item that one byte string, cbor_bytes, encodes.  env is the    *)
(* environment of the call: the build (compression-brotli feature,         *)
(* overflow checks), the reads of the decoders and the system clock.       *)

QrText(valid, compressed, cbor_bytes, cbor_item) ==
    [valid |-> valid, compressed |-> compressed,
     cbor_bytes |-> cbor_bytes, cbor_item |-> cbor_item]

Env(brotli, read_size, overflow_checks, now) ==
    [brotli |-> brotli, read_size |-> read_size, overflow_checks |-> overflow_checks,
     now |-> now]

DecodeOptions(max_decompressed_bytes, skip_biometrics, validate_timestamps, allow_unverified, clock_skew_tolerance_seconds) ==
    [max_decompressed_bytes |-> max_decompressed_bytes,
     skip_biometrics |-> skip_biometrics,
     validate_timestamps |-> validate_timestamps,
     allow_unverified |-> allow_unverified,
     clock_skew_tolerance_seconds |-> clock_skew_tolerance_seconds]

\* pipeline::base45_decode: invalid, truncated or empty text is a Base45Decode error
base45_decode(qr_text) ==
    IF qr_text.valid /\ qr_text.compressed # <<>>
    THEN Ok(qr_text.compressed)
    ELSE Err(E("Base45Decode", "-"))

\* the item a byte string encodes, as the COSE and CWT parsers see it
CborItem(qr_text, bytes) ==
    IF bytes = qr_text.cbor_bytes THEN qr_text.cbor_item ELSE Bytes("raw", None, 0)

CwtMeta(issuer, subject, expires_at, not_before, issued_at) ==
    [issuer |-> issuer, subject |-> subject, expires_at |-> expires_at,
     not_before |-> not_before, issued_at |-> issued_at]

\* the bytes of a CWT claims map: its meta fields and the value at key 169, if any
Cwt(meta, claim_169) == Bytes("cwt", None, [meta |-> meta, claim_169 |-> claim_169])

\* pipeline::cwt_parse
cwt_parse(payload) ==
    IF payload.k # "cwt" THEN Err(E("CwtParse", "not a CWT claims map"))
    ELSE IF payload.body.claim_169 = None THEN Err(E("Claim169NotFound", "-"))
    ELSE Ok([meta |-> payload.body.meta, claim_169 |-> Unwrap(payload.body.claim_169)])

\* a + b on i64: a build with overflow checks panics on overflow, one without wraps
Panic(msg) == Err(E("panic", msg))

add_i64(a, b, overflow_checks) ==
    IF a + b \in I64 THEN Ok(a + b)
    ELSE IF overflow_checks THEN Panic("attempt to add with overflow")
    ELSE Ok(Wrap(a + b))

\* the verification gate with the check for a failed signature left out
VerificationGate_skipped_only(envelope, options) ==
    IF ~options.allow_unverified /\ envelope.verification_status = "Skipped"
    THEN Err(E("SignatureInvalid", "verification required but no verifier provided"))
    ELSE Ok(<<>>)

\* the verification gate with the check for a skipped verification left out
VerificationGate_failed_only(envelope, options) ==
    IF envelope.verification_status = "Failed"
    THEN Err(E("SignatureInvalid", "signature verification failed"))
    ELSE Ok(<<>>)

\* the two checks on verification_status that follow the COSE stage
VerificationGate(envelope, options) ==
    IF ~options.allow_unverified /\ envelope.verification_status = "Skipped"
    THEN Err(E("SignatureInvalid", "verification required but no verifier provided"))
    ELSE IF envelope.verification_status = "Failed"
    THEN Err(E("SignatureInvalid", "signature verification failed"))
    ELSE Ok(<<>>)

\* step 6 with validate_timestamps set: the exp and nbf comparisons
ValidateTimestamps(meta, options, env) ==
    LET now == env.now
        skew == options.clock_skew_tolerance_seconds
        exp == meta.expires_at
        nbf == meta.not_before
        exp_skew == IF IsSome(exp) THEN add_i64(Unwrap(exp), skew, env.overflow_checks)
                    ELSE Ok(0)
        now_skew == add_i64(now, skew, env.overflow_checks)
    IN  IF IsSome(exp) /\ ~exp_skew.ok THEN exp_skew
        ELSE IF IsSome(exp) /\ now > exp_skew.val
        THEN Err(E("Expired", ToString(Unwrap(exp))))
        ELSE IF IsSome(nbf) /\ ~now_skew.ok THEN now_skew
        ELSE IF IsSome(nbf) /\ now_skew.val < Unwrap(nbf)
        THEN Err(E("NotYetValid", ToString(Unwrap(nbf))))
        ELSE Ok(<<>>)

DecodeResult(claim169, cwt_meta, verification_status, warnings) ==
    [claim169 |-> claim169, cwt_meta |-> cwt_meta,
     verification_status |-> verification_status, warnings |-> warnings]

\* the warnings pushed by a decode that succeeds, in order
Warnings(claim169, options) ==
    (IF options.validate_timestamps THEN <<>> ELSE <<"TimestampValidationSkipped">>)
    \o (IF options.skip_biometrics THEN <<"BiometricsSkipped">> ELSE <<>>)
    \o (IF DOMAIN claim169.unknown_fields # {} THEN <<"UnknownFields">> ELSE <<>>)

\* what a decode returns, the capability calls it made, and the stage it ended in
DecodeOut(res, calls, stage) == [res |-> res, calls |-> calls, stage |-> stage]

\* steps 4 to 7, which decode_internal and decode_with_resolver_internal share:
\* the verification gate, the CWT parse, the timestamps, the transform
\* the steps after the COSE stage with the CWT parsed and the timestamps validated
\* before the verification status is looked at
FinishDecode_gate_after_timestamps(cose_out, options, env) ==
    LET envelope == cose_out.res.val
        gate == VerificationGate(envelope, options)
        cwt_result == cwt_parse(envelope.payload)
        timestamps == IF options.validate_timestamps
                      THEN ValidateTimestamps(cwt_result.val.meta, options, env)
                      ELSE Ok(<<>>)
        claim169 == transform(cwt_result.val.claim_169, options.skip_biometrics)
    IN  IF ~cwt_result.ok THEN DecodeOut(cwt_result, cose_out.calls, "cwt")
        ELSE IF ~timestamps.ok THEN DecodeOut(timestamps, cose_out.calls, "timestamps")
        ELSE IF ~gate.ok THEN DecodeOut(gate, cose_out.calls, "gate")
        ELSE IF ~claim169.ok THEN DecodeOut(claim169, cose_out.calls, "transform")
        ELSE DecodeOut(Ok(DecodeResult(claim169.val, cwt_result.val.meta,
                                       envelope.verification_status,
                                       Warnings(claim169.val, options))),
                       cose_out.calls, "done")

FinishDecode(cose_out, options, env) ==
    LET envelope == cose_out.res.val
        gate == VerificationGate(envelope, options)
        cwt_result == cwt_parse(envelope.payload)
        timestamps == IF options.validate_timestamps
                      THEN ValidateTimestamps(cwt_result.val.meta, options, env)
                      ELSE Ok(<<>>)
        claim169 == transform(cwt_result.val.claim_169, options.skip_biometrics)
    IN  IF ~gate.ok THEN DecodeOut(gate, cose_out.calls, "gate")
        ELSE IF ~cwt_result.ok THEN DecodeOut(cwt_result, cose_out.calls, "cwt")
        ELSE IF ~timestamps.ok THEN DecodeOut(timestamps, cose_out.calls, "timestamps")
        ELSE IF ~claim169.ok THEN DecodeOut(claim169, cose_out.calls, "transform")
        ELSE DecodeOut(Ok(DecodeResult(claim169.val, cwt_result.val.meta,
                                       envelope.verification_status,
                                       Warnings(claim169.val, options))),
                       cose_out.calls, "done")

decode_internal(qr_text, verifier, decryptor, options, env) ==
    LET compressed == base45_decode(qr_text)
        decompressed == decompress(compressed.val, options.max_decompressed_bytes, env)
        cose_bytes == decompressed.val.bytes
        cose_out == parse_and_verify(CborItem(qr_text, cose_bytes), verifier, decryptor)
    IN  IF ~compressed.ok THEN DecodeOut(compressed, <<>>, "base45")
        ELSE IF ~decompressed.ok THEN DecodeOut(decompressed, <<>>, "decompress")
        ELSE IF ~cose_out.res.ok THEN DecodeOut(cose_out.res, cose_out.calls, "cose")
        ELSE FinishDecode(cose_out, options, env)

decode_with_resolver_internal(qr_text, resolver, options, env) ==
    LET compressed == base45_decode(qr_text)
        decompressed == decompress(compressed.val, options.max_decompressed_bytes, env)
        cose_bytes == decompressed.val.bytes
        cose_out == parse_with_resolver(CborItem(qr_text, cose_bytes), resolver)
    IN  IF ~compressed.ok THEN DecodeOut(compressed, <<>>, "base45")
        ELSE IF ~decompressed.ok THEN DecodeOut(decompressed, <<>>, "decompress")
        ELSE IF ~cose_out.res.ok THEN DecodeOut(cose_out.res, cose_out.calls, "cose")
        ELSE FinishDecode(cose_out, options, env)

decode(qr_text, options, env) == decode_internal(qr_text, None, None, options, env)

decode_with_verifier(qr_text, verifier, options, env) ==
    decode_internal(qr_text, Some(verifier), None, options, env)

decode_encrypted(qr_text, decryptor, verifier, options, env) ==
    decode_internal(qr_text, verifier, Some(decryptor), options, env)

decode_with_resolver(qr_text, resolver, options, env) ==
    decode_with_resolver_internal(qr_text, resolver, options, env)

-----------------------------------------------------------------------------
(* The builders.  DecodeOptions is built by its with_* methods             *)
(* (options.rs).  claim169::Decoder collects a QR text, the capabilities   *)
(* and the options, and decodes with them.  A key is its bytes; the        *)
(* verifier made from a key is represented by the answer it gives for the  *)
(* signature of the credential at hand.                                    *)

DecodeOptions_default == DecodeOptions(65536, FALSE, TRUE, FALSE, 0)

Max(a, b) == IF a >= b THEN a ELSE b

with_clock_skew_tolerance(options, seconds) ==
    [options EXCEPT !.clock_skew_tolerance_seconds = Max(seconds, 0)]

\* the key the credentials at hand are signed for, another Ed25519 key, a key of
\* the wrong length, and an ECDSA P-256 key in compressed form
IssuerKey == [i \in 1..32 |-> 1]
OtherKey == [i \in 1..32 |-> 2]
ShortKey == <<1, 2, 3>>
P256Key == [i \in 1..33 |-> 3]

Ed25519Verifier(public_key) == IF public_key = IssuerKey THEN "Ok" ELSE "VerificationFailed"
EcdsaP256Verifier(public_key) == "UnsupportedAlgorithm"

Decoder(qr_text, verifier, decryptor, options) ==
    [qr_text |-> qr_text, verifier |-> verifier, decryptor |-> decryptor,
     options |-> options]

Decoder_new(qr_text) == Decoder(qr_text, None, None, DecodeOptions_default)

Decoder_verify_with(d, verifier) == [d EXCEPT !.verifier = Some(verifier)]

Decoder_verify_with_ed25519(d, public_key) ==
    IF Len(public_key) # 32 THEN Err(E("Crypto", "invalid key"))
    ELSE Ok(Decoder_verify_with(d, Ed25519Verifier(public_key)))

Decoder_verify_with_ecdsa_p256(d, public_key) ==
    IF Len(public_key) \notin {33, 65} THEN Err(E("Crypto", "invalid key"))
    ELSE Ok(Decoder_verify_with(d, EcdsaP256Verifier(public_key)))

Decoder_allow_unverified(d) == [d EXCEPT !.options.allow_unverified = TRUE]

Decoder_without_timestamp_validation(d) ==
    [d EXCEPT !.options.validate_timestamps = FALSE]

Decoder_clock_skew_tolerance(d, seconds) ==
    [d EXCEPT !.options = with_clock_skew_tolerance(d.options, seconds)]

Decoder_max_decompressed_bytes(d, max_bytes) ==
    [d EXCEPT !.options.max_decompressed_bytes = max_bytes]

\* Decoder::decode: without a verifier and without allow_unverified the decoder is
\* misconfigured; otherwise the decode sequence runs with what was collected
Decoder_decode(d, env) ==
    IF d.verifier = None /\ ~d.options.allow_unverified
    THEN Err(E("DecodingConfig", "no verifier"))
    ELSE decode_internal(d.qr_text, d.verifier, d.decryptor, d.options, env).res

-----------------------------------------------------------------------------
(* The JNI binding (claim169-jni/src/lib.rs).  Claim169Decoder keeps the   *)
(* core Decoder in inner: Mutex<Option<Decoder>>.  A call on the object    *)
(* leaves a value in inner and returns a result; decoded tells whether     *)
(* Decoder::decode ran.  The arguments of a call are a sequence: the key   *)
(* bytes, <<seconds>>, or nothing.  Claim169Exception::from keeps the kind *)
(* and the message of a Claim169Error.                                     *)

AlreadyConsumed == Err(E("DecodingConfig", "decoder already consumed"))
NegativeSkew == Err(E("DecodingConfig", "clock skew tolerance must be non-negative"))

JniOut(inner, res, decoded) == [inner |-> inner, res |-> res, decoded |-> decoded]

\* the closure a builder method hands to with_decoder, applied to the decoder
Closure(op, arg, d) ==
    CASE op = "verify_with_ed25519" -> Decoder_verify_with_ed25519(d, arg)
      [] op = "allow_unverified" -> Ok(Decoder_allow_unverified(d))
      [] op = "without_timestamp_validation" -> Ok(Decoder_without_timestamp_validation(d))
      [] op = "clock_skew_tolerance" -> Ok(Decoder_clock_skew_tolerance(d, arg[1]))

\* with_decoder: guard.take(), then `*guard = Some(f(decoder)?)`: when f fails the
\* `?` returns before anything is stored and inner stays None
with_decoder(inner, op, arg) ==
    IF inner = None THEN JniOut(None, AlreadyConsumed, FALSE)
    ELSE LET applied == Closure(op, arg, Unwrap(inner))
         IN  IF applied.ok THEN JniOut(Some(applied.val), Ok(<<>>), FALSE)
             ELSE JniOut(None, applied, FALSE)

\* take_decoder: guard.take() without putting anything back
take_decoder(inner) ==
    IF inner = None THEN [inner |-> None, res |-> AlreadyConsumed]
    ELSE [inner |-> None, res |-> Ok(Unwrap(inner))]

\* clock_skew_tolerance with the check made inside the closure
Claim169Decoder_clock_skew_tolerance_checks_late(inner, seconds) ==
    IF inner = None THEN JniOut(None, AlreadyConsumed, FALSE)
    ELSE IF seconds < 0 THEN JniOut(None, NegativeSkew, FALSE)
    ELSE with_decoder(inner, "clock_skew_tolerance", <<seconds>>)

Claim169Decoder_clock_skew_tolerance(inner, seconds) ==
    IF seconds < 0 THEN JniOut(inner, NegativeSkew, FALSE)
    ELSE with_decoder(inner, "clock_skew_tolerance", <<seconds>>)

\* execute leaving the decoder in place
Claim169Decoder_execute_keeps_decoder(inner, env) ==
    IF inner = None THEN JniOut(None, AlreadyConsumed, FALSE)
    ELSE JniOut(inner, Decoder_decode(Unwrap(inner), env), TRUE)

Claim169Decoder_execute(inner, env) ==
    LET taken == take_decoder(inner)
    IN  IF ~taken.res.ok THEN JniOut(taken.inner, taken.res, FALSE)
        ELSE JniOut(taken.inner, Decoder_decode(taken.res.val, env), TRUE)

-----------------------------------------------------------------------------
(* The WebAssembly binding (claim169-wasm/src/lib.rs).  The builder        *)
(* methods take the WasmDecoder by value: a method that returns an error   *)
(* drops it, and decode consumes it.  decode builds a core Decoder; core   *)
(* lists the builder calls it makes on it.  A JsError is its message.      *)
(* The decryption methods are not part of the model: decrypt_config stays  *)
(* None.                                                                   *)

VerifyConfig(t, key) == [t |-> t, v |-> key]

WasmDecoder(qr_text, validate_timestamps, clock_skew_tolerance_seconds, verify_config) ==
    [qr_text |-> qr_text, skip_biometrics |-> FALSE,
     validate_timestamps |-> validate_timestamps,
     clock_skew_tolerance_seconds |-> clock_skew_tolerance_seconds,
     max_decompressed_bytes |-> 65536,
     verify_config |-> verify_config, decrypt_config |-> None]

WasmDecoder_new(qr_text) == WasmDecoder(qr_text, FALSE, 0, VerifyConfig("None", <<>>))

JsError(msg) == Err(E("JsError", msg))

WasmOut(decoder, res, core) == [decoder |-> decoder, res |-> res, core |-> core]

WasmDecoder_verify_with_ed25519(self, public_key) ==
    IF Len(public_key) # 32
    THEN WasmOut(None, JsError("Ed25519 public key must be 32 bytes"), <<>>)
    ELSE WasmOut(Some([self EXCEPT !.verify_config = VerifyConfig("Ed25519", public_key)]),
                 Ok(<<>>), <<>>)

WasmDecoder_verify_with_ecdsa_p256(self, public_key) ==
    IF Len(public_key) # 33 /\ Len(public_key) # 65
    THEN WasmOut(None, JsError("ECDSA P-256 public key must be 33 or 65 bytes"), <<>>)
    ELSE WasmOut(Some([self EXCEPT !.verify_config = VerifyConfig("EcdsaP256", public_key)]),
                 Ok(<<>>), <<>>)

\* allow_unverified leaving a verifier configured earlier in place
WasmDecoder_allow_unverified_keeps_verifier(self) ==
    IF self.verify_config.t = "None"
    THEN WasmOut(Some([self EXCEPT !.verify_config = VerifyConfig("Unverified", <<>>)]),
                 Ok(<<>>), <<>>)
    ELSE WasmOut(Some(self), Ok(<<>>), <<>>)

WasmDecoder_allow_unverified(self) ==
    WasmOut(Some([self EXCEPT !.verify_config = VerifyConfig("Unverified", <<>>)]),
            Ok(<<>>), <<>>)

WasmDecoder_verify_with(self, verifier) ==
    WasmOut(Some([self EXCEPT !.verify_config = VerifyConfig("Custom", <<verifier>>)]),
            Ok(<<>>), <<>>)

WasmDecoder_with_timestamp_validation(self) ==
    WasmOut(Some([self EXCEPT !.validate_timestamps = TRUE]), Ok(<<>>), <<>>)

\* seconds: i32, widened by i64::from
WasmDecoder_clock_skew_tolerance(self, seconds) ==
    WasmOut(Some([self EXCEPT !.clock_skew_tolerance_seconds = Max(seconds, 0)]),
            Ok(<<>>), <<>>)

CoreCall(op, arg) == [op |-> op, arg |-> arg]

\* the match on verify_config in decode: the builder call made on the core
\* decoder and what it returns
ApplyVerifyConfig(decoder, verify_config) ==
    CASE verify_config.t = "Ed25519" ->
            [call |-> CoreCall("verify_with_ed25519", verify_config.v),
             res |-> Decoder_verify_with_ed25519(decoder, verify_config.v)]
      [] verify_config.t = "EcdsaP256" ->
            [call |-> CoreCall("verify_with_ecdsa_p256", verify_config.v),
             res |-> Decoder_verify_with_ecdsa_p256(decoder, verify_config.v)]
      [] verify_config.t = "Custom" ->
            [call |-> CoreCall("verify_with", verify_config.v),
             res |-> Ok(Decoder_verify_with(decoder, verify_config.v[1]))]
      [] verify_config.t = "Unverified" ->
            [call |-> CoreCall("allow_unverified", <<>>),
             res |-> Ok(Decoder_allow_unverified(decoder))]

\* the timestamp settings decode applies to the core decoder
ApplyTimestamps(decoder, self) ==
    IF ~self.validate_timestamps
    THEN [call |-> CoreCall("without_timestamp_validation", <<>>),
          decoder |-> Decoder_without_timestamp_validation(decoder)]
    ELSE [call |-> CoreCall("clock_skew_tolerance", <<self.clock_skew_tolerance_seconds>>),
          decoder |-> Decoder_clock_skew_tolerance(decoder, self.clock_skew_tolerance_seconds)]

WasmDecoder_decode(self, env) ==
    LET decoder == Decoder_max_decompressed_bytes(Decoder_new(self.qr_text),
                                                  self.max_decompressed_bytes)
        core == <<CoreCall("new", <<>>),
                  CoreCall("max_decompressed_bytes", <<self.max_decompressed_bytes>>)>>
    IN  IF self.verify_config.t = "None"
        THEN WasmOut(None, JsError("Must call a verification method before decode()"), core)
        ELSE LET verify == ApplyVerifyConfig(decoder, self.verify_config)
             IN  IF ~verify.res.ok
                 THEN WasmOut(None, JsError(verify.res.err.kind), core \o <<verify.call>>)
                 ELSE LET timed == ApplyTimestamps(verify.res.val, self)
                          result == Decoder_decode(timed.decoder, env)
                      IN  WasmOut(None,
                                  IF result.ok THEN result ELSE JsError(result.err.kind),
                                  core \o <<verify.call, timed.call>>)

-----------------------------------------------------------------------------
(* Inputs of the envelope specification                                    *)

Tags == {None, Some(COSE_SIGN1_TAG), Some(COSE_ENCRYPT0_TAG), Some(61)}

RawBytes(i) == Bytes("raw", None, i)

ProtectedRests ==
    {<<>>, <<<<32, VBytes(<<1>>)>>, <<35, VText("https://a")>>>>, <<<<32, VText("bag")>>>>}
UnprotectedRests == {<<>>, <<<<32, VBytes(<<2>>)>>>>}

Sign1Protected ==
    {Header(a, k, <<>>, r) :
        a \in {None, Some(Assigned("EdDSA")), Some(TextAlg("EdDSA"))},
        k \in {<<>>, <<1>>}, r \in ProtectedRests}

Sign1Unprotected ==
    {Header(a, k, <<>>, r) :
        a \in {None, Some(Assigned("EdDSA"))}, k \in {<<>>, <<2>>}, r \in UnprotectedRests}

Sign1s ==
    {CoseSign1(p, u, pl, <<9>>) :
        p \in Sign1Protected, u \in Sign1Unprotected, pl \in {None, Some(RawBytes(1))}}

\* the Sign1 structures a decryptor may return as plaintext
InnerSign1s ==
    {CoseSign1(Header(a, k, <<>>, <<<<33, VBytes(<<3>>)>>>>), Header(ua, <<>>, <<>>, <<>>),
               pl, <<9>>) :
        a \in {None, Some(Assigned("EdDSA"))}, k \in {<<>>, <<3>>},
        ua \in {None, Some(Assigned("EdDSA"))}, pl \in {None, Some(RawBytes(2))}}

Encrypt0s ==
    {CoseEncrypt0(Header(a, k, iv, r), Header(None, uk, uiv, <<>>), c) :
        a \in {None, Some(Assigned("A256GCM"))}, k \in {<<>>, <<1>>},
        iv \in {<<>>, <<7>>}, r \in ProtectedRests,
        uk \in {<<>>, <<2>>}, uiv \in {<<>>, <<8>>}, c \in {None, Some(<<5>>)}}

InnerEncrypt0 ==
    CoseEncrypt0(Header(Some(Assigned("A256GCM")), <<>>, <<7>>, <<>>),
                 Header(None, <<>>, <<>>, <<>>), Some(<<6>>))

Plaintexts ==
    {Bytes("sign1", t, s) : t \in {None, Some(COSE_SIGN1_TAG)}, s \in InnerSign1s}
    \cup {Bytes("encrypt0", t, InnerEncrypt0) : t \in {None, Some(COSE_ENCRYPT0_TAG)}}
    \cup {RawBytes(3)}
    \cup {Bytes("sign1", Some(61), s) : s \in {x \in InnerSign1s : x.protected.key_id = <<>>}}

VerifierAnswers == {"Ok", "VerificationFailed", "UnsupportedAlgorithm"}
Verifiers == {None} \cup {Some(a) : a \in VerifierAnswers}

DecryptorAnswers == {Ok(pt) : pt \in Plaintexts} \cup {Err(E("DecryptionFailed", "-"))}
Decryptors == {None} \cup {Some(a) : a \in DecryptorAnswers}

Sign1Data == {Bytes("sign1", t, s) : t \in Tags, s \in Sign1s}
Encrypt0Data == {Bytes("encrypt0", t, e) : t \in {None, Some(COSE_ENCRYPT0_TAG)}, e \in Encrypt0s}

ResolveVerifier == {Ok(a) : a \in VerifierAnswers} \cup {Err(E("KeyNotFound", "-"))}
ResolveDecryptor == {Ok(a) : a \in DecryptorAnswers} \cup {Err(E("KeyNotFound", "-"))}

Resolver(rv, rd) == [resolve_verifier |-> rv, resolve_decryptor |-> rd]

-----------------------------------------------------------------------------
(* Inputs of the decompression specification                               *)

MaxLen == 3

DataBytes == {0, 11, ZLIB_MAGIC, 210}
Data == UNION {[1..n -> DataBytes] : n \in 0..MaxLen}

\* a zlib stream whose checksum is wrong
CorruptZlib(data) == <<ZLIB_MAGIC, 156>> \o data \o <<(Adler(data) + 1) % 256>>

\* the input of a decompress call that carries data in the given form
Compressed(form, data) ==
    CASE form = "zlib" -> compress_zlib(data)
      [] form = "zlib_corrupt" -> CorruptZlib(data)
      [] form = "brotli" -> compress_brotli(data, 5)
      [] OTHER -> data

Forms == {"zlib", "zlib_corrupt", "brotli", "raw"}
ReadSizes == {1, 2, BUFFER_SIZE + 1}

-----------------------------------------------------------------------------
(* Inputs of the decode specification                                      *)

MinimalClaim == VMap(<<<<VInteger(1), VText("X")>>, <<VInteger(4), VText("A")>>>>)

Claim169Values ==
    {MinimalClaim,
     VMap(<<<<VInteger(1), VText("X")>>,
            <<VInteger(62), VMap(<<<<VInteger(0), VBytes(<<1>>)>>>>)>>,
            <<VInteger(99), VText("u")>>>>),
     VText("not a map"),
     VMap(<<<<VText("k"), VText("v")>>>>)}

Meta(exp, nbf) == CwtMeta(Some("i"), None, exp, nbf, None)

\* the payloads of the envelope cases; the clock of these cases reads 7
Payloads ==
    {Cwt(m, Some(v)) :
        m \in {Meta(None, None), Meta(Some(5), None), Meta(None, Some(9))},
        v \in Claim169Values}
    \cup {Cwt(Meta(None, None), None), RawBytes(1)}

DecodeSign1(alg, payload) ==
    CoseSign1(Header(alg, <<1>>, <<>>, <<>>), Header(None, <<>>, <<>>, <<>>),
              Some(payload), <<9>>)

DecodeSign1s == {DecodeSign1(a, p) : a \in {None, Some(Assigned("EdDSA"))}, p \in Payloads}

DecodeEncrypt0 ==
    CoseEncrypt0(Header(Some(Assigned("A256GCM")), <<2>>, <<>>, <<>>),
                 Header(None, <<>>, <<7>>, <<>>), Some(<<5>>))

\* what the decryptor of a decode call may return
DecodePlaintexts ==
    {Bytes("sign1", Some(COSE_SIGN1_TAG), DecodeSign1(Some(Assigned("EdDSA")), p)) :
        p \in {Cwt(Meta(None, None), Some(MinimalClaim)), RawBytes(1)}}
    \cup {Cwt(Meta(None, None), Some(MinimalClaim)), RawBytes(3)}

DecodeDecryptors ==
    {Ok(pt) : pt \in DecodePlaintexts} \cup {Err(E("DecryptionFailed", "-"))}

\* the bytes of a tagged COSE_Sign1 and of a tagged COSE_Encrypt0
Sign1Bytes == <<210, 132>>
Encrypt0Bytes == <<208, 131>>

QrForms == {"zlib", "zlib_corrupt", "brotli", "raw", "invalid"}

\* the QR text that carries the item in the given form
Qr(form, bytes, item) ==
    QrText(form # "invalid", Compressed(form, bytes), bytes, item)

Sign1Qrs == {Qr(f, Sign1Bytes, Bytes("sign1", Some(COSE_SIGN1_TAG), s)) :
                f \in QrForms, s \in DecodeSign1s}
Encrypt0Qrs == {Qr(f, Encrypt0Bytes, Bytes("encrypt0", Some(COSE_ENCRYPT0_TAG), DecodeEncrypt0)) :
                   f \in {"zlib", "raw"}}

EnvelopeOptions ==
    {DecodeOptions(m, sb, vt, au, sk) :
        m \in {1, 8}, sb \in BOOLEAN, vt \in BOOLEAN, au \in BOOLEAN, sk \in {0, 2}}

EnvelopeEnvs == {Env(b, r, TRUE, 7) : b \in BOOLEAN, r \in {1, BUFFER_SIZE}}

\* the timestamp cases: values at and around the ends of i64 and around the clock
TimeSamples == {I64_MIN, -1, 0, 1, 5, 6, 7, 8, I64_MAX - 1, I64_MAX}
TimeNows == {0, 1, 7, I64_MAX - 1, I64_MAX}
\* clock_skew_tolerance_seconds is a public i64 field: it holds what the caller put
TimeSkews == {-1, 0, 1, 2, I64_MAX}

TimeQr(exp, nbf) ==
    Qr("zlib", Sign1Bytes,
       Bytes("sign1", Some(COSE_SIGN1_TAG),
             DecodeSign1(Some(Assigned("EdDSA")), Cwt(Meta(exp, nbf), Some(MinimalClaim)))))

TimeQrs ==
    {TimeQr(exp, nbf) :
        exp \in {None} \cup {Some(t) : t \in TimeSamples},
        nbf \in {None, Some(0), Some(I64_MAX)}}

TimeOptions == {DecodeOptions(8, FALSE, vt, FALSE, sk) : vt \in BOOLEAN, sk \in TimeSkews}
TimeEnvs == {Env(FALSE, BUFFER_SIZE, oc, now) : oc \in BOOLEAN, now \in TimeNows}

-----------------------------------------------------------------------------
(* The specifications: the inputs of one call are drawn in the initial     *)
(* state, and the call is one step.                                        *)

NoCall == [op |-> "none"]
NoOut == Out(Err(E("-", "-")), <<>>)
NoResult == Err(E("-", "-"))
NoDecodeOut == DecodeOut(Err(E("-", "-")), <<>>, "-")

CoseIdle == cose_call = NoCall /\ cose_result = NoOut
DzIdle == dz_call = NoCall /\ dz_result = NoResult
DecIdle == dec_call = NoCall /\ dec_result = NoDecodeOut
JniIdle == jni_inner = <<>> /\ jni_trace = <<>>
WasmIdle == wasm_decoder = <<>> /\ wasm_trace = <<>>
CoreIdle == CoseIdle /\ DzIdle /\ DecIdle
TrIdle == tr_call = NoCall /\ tr_result = NoResult
NoRoundTrip == [compressed |-> Decompressed(<<>>, "-"), res |-> NoResult]
RtIdle == rt_call = NoCall /\ rt_result = NoRoundTrip
ThreadsIdle == jni_mutex = <<>> /\ jni_threads = <<>> /\ jni_order = <<>>
RestIdle == TrIdle /\ RtIdle /\ ThreadsIdle

CallVerify(data, verifier, decryptor) ==
    [op |-> "parse_and_verify", data |-> data, verifier |-> verifier, decryptor |-> decryptor]

CallResolver(data, resolver) ==
    [op |-> "parse_with_resolver", data |-> data, resolver |-> resolver]

InitCose ==
    /\ DzIdle /\ DecIdle /\ JniIdle /\ WasmIdle /\ RestIdle
    /\ cose_result = NoOut
    /\ \/ \E data \in Sign1Data \cup {RawBytes(1)}, verifier \in Verifiers :
              cose_call = CallVerify(data, verifier, None)
       \/ \E data \in Encrypt0Data, verifier \in Verifiers, decryptor \in Decryptors :
              cose_call = CallVerify(data, verifier, decryptor)
       \/ \E data \in Sign1Data \cup {RawBytes(1)}, rv \in ResolveVerifier :
              cose_call = CallResolver(data, Resolver(rv, Err(E("KeyNotFound", "-"))))
       \/ \E data \in Encrypt0Data, rv \in ResolveVerifier, rd \in ResolveDecryptor :
              cose_call = CallResolver(data, Resolver(rv, rd))

ParseAndVerify ==
    /\ cose_result = NoOut
    /\ cose_call.op = "parse_and_verify"
    /\ cose_result' = parse_and_verify(cose_call.data, cose_call.verifier, cose_call.decryptor)
    /\ UNCHANGED <<cose_call, dz_call, dz_result, dec_call, dec_result>>
    /\ UNCHANGED <<binding_vars, rest_vars>>

ParseWithResolver ==
    /\ cose_result = NoOut
    /\ cose_call.op = "parse_with_resolver"
    /\ cose_result' = parse_with_resolver(cose_call.data, cose_call.resolver)
    /\ UNCHANGED <<cose_call, dz_call, dz_result, dec_call, dec_result>>
    /\ UNCHANGED <<binding_vars, rest_vars>>

NextCose == ParseAndVerify \/ ParseWithResolver

SpecCose == InitCose /\ [][NextCose]_vars

\* decompress: the call records the form and the data its input was built from
CallDecompress(form, data, max_bytes, env) ==
    [op |-> "decompress", form |-> form, data |-> data,
     input |-> Compressed(form, data), max_bytes |-> max_bytes, env |-> env]

InitDecompress ==
    /\ CoseIdle /\ DecIdle /\ JniIdle /\ WasmIdle /\ RestIdle
    /\ dz_result = NoResult
    /\ \E form \in Forms, data \in Data, max_bytes \in 0..(MaxLen + 1),
          brotli \in BOOLEAN, read_size \in ReadSizes :
          dz_call = CallDecompress(form, data, max_bytes, Env(brotli, read_size, TRUE, 0))

Decompress ==
    /\ dz_result = NoResult
    /\ dz_call.op = "decompress"
    /\ dz_result' = decompress(dz_call.input, dz_call.max_bytes, dz_call.env)
    /\ UNCHANGED <<cose_call, cose_result, dz_call, dec_call, dec_result>>
    /\ UNCHANGED <<binding_vars, rest_vars>>

NextDecompress == Decompress

SpecDecompress == InitDecompress /\ [][NextDecompress]_vars

\* the four decode functions
CallDecode(op, qr_text, verifier, decryptor, resolver, options, env) ==
    [op |-> op, qr_text |-> qr_text, verifier |-> verifier, decryptor |-> decryptor,
     resolver |-> resolver, options |-> options, env |-> env]

NoResolver == Resolver(Err(E("KeyNotFound", "-")), Err(E("KeyNotFound", "-")))

InitDecode ==
    /\ CoseIdle /\ DzIdle /\ JniIdle /\ WasmIdle /\ RestIdle
    /\ dec_result = NoDecodeOut
    /\ \/ \E qr \in Sign1Qrs, o \in EnvelopeOptions, env \in EnvelopeEnvs :
              dec_call = CallDecode("decode", qr, None, None, NoResolver, o, env)
       \/ \E qr \in Sign1Qrs, v \in VerifierAnswers, o \in EnvelopeOptions,
             env \in EnvelopeEnvs :
              dec_call = CallDecode("decode_with_verifier", qr, Some(v), None, NoResolver, o, env)
       \/ \E qr \in Encrypt0Qrs, d \in DecodeDecryptors, v \in Verifiers,
             o \in EnvelopeOptions, env \in EnvelopeEnvs :
              dec_call = CallDecode("decode_encrypted", qr, v, Some(d), NoResolver, o, env)
       \/ \E qr \in Sign1Qrs, rv \in ResolveVerifier, o \in EnvelopeOptions,
             env \in EnvelopeEnvs :
              dec_call = CallDecode("decode_with_resolver", qr, None, None,
                                    Resolver(rv, Err(E("KeyNotFound", "-"))), o, env)
       \/ \E qr \in Encrypt0Qrs, rv \in ResolveVerifier, d \in DecodeDecryptors,
             o \in EnvelopeOptions, env \in EnvelopeEnvs :
              dec_call = CallDecode("decode_with_resolver", qr, None, None,
                                    Resolver(rv, Ok(d)), o, env)
       \/ \E qr \in Encrypt0Qrs, rv \in ResolveVerifier, o \in EnvelopeOptions,
             env \in EnvelopeEnvs :
              dec_call = CallDecode("decode_with_resolver", qr, None, None,
                                    Resolver(rv, Err(E("KeyNotFound", "-"))), o, env)
       \/ \E qr \in TimeQrs, o \in TimeOptions, env \in TimeEnvs :
              \/ dec_call = CallDecode("decode_with_verifier", qr, Some("Ok"), None,
                                       NoResolver, o, env)
              \/ dec_call = CallDecode("decode_with_resolver", qr, None, None,
                                       Resolver(Ok("Ok"), Err(E("KeyNotFound", "-"))),
                                       o, env)

Decode ==
    /\ dec_result = NoDecodeOut
    /\ dec_call.op = "decode"
    /\ dec_result' = decode(dec_call.qr_text, dec_call.options, dec_call.env)
    /\ UNCHANGED <<cose_call, cose_result, dz_call, dz_result, dec_call>>
    /\ UNCHANGED <<binding_vars, rest_vars>>

DecodeWithVerifier ==
    /\ dec_result = NoDecodeOut
    /\ dec_call.op = "decode_with_verifier"
    /\ dec_result' = decode_with_verifier(dec_call.qr_text, Unwrap(dec_call.verifier),
                                          dec_call.options, dec_call.env)
    /\ UNCHANGED <<cose_call, cose_result, dz_call, dz_result, dec_call>>
    /\ UNCHANGED <<binding_vars, rest_vars>>

DecodeEncrypted ==
    /\ dec_result = NoDecodeOut
    /\ dec_call.op = "decode_encrypted"
    /\ dec_result' = decode_encrypted(dec_call.qr_text, Unwrap(dec_call.decryptor),
                                      dec_call.verifier, dec_call.options, dec_call.env)
    /\ UNCHANGED <<cose_call, cose_result, dz_call, dz_result, dec_call>>
    /\ UNCHANGED <<binding_vars, rest_vars>>

DecodeWithResolver ==
    /\ dec_result = NoDecodeOut
    /\ dec_call.op = "decode_with_resolver"
    /\ dec_result' = decode_with_resolver(dec_call.qr_text, dec_call.resolver,
                                          dec_call.options, dec_call.env)
    /\ UNCHANGED <<cose_call, cose_result, dz_call, dz_result, dec_call>>
    /\ UNCHANGED <<binding_vars, rest_vars>>

NextDecode == Decode \/ DecodeWithVerifier \/ DecodeEncrypted \/ DecodeWithResolver

SpecDecode == InitDecode /\ [][NextDecode]_vars

-----------------------------------------------------------------------------
(* The JNI decoder: one Claim169Decoder, the calls a program makes on it   *)
(* one after the other.                                                    *)

MaxCalls == 4

JniEnv == Env(FALSE, BUFFER_SIZE, TRUE, 7)
JniQrs == {TimeQr(None, None), TimeQr(Some(5), None), Qr("invalid", <<>>, RawBytes(0))}
JniKeys == {IssuerKey, OtherKey, ShortKey}
JniSkews == {-1, 0, 2}

\* Claim169Decoder::new, the first entry of the trace
JniNew(qr_text) ==
    [op |-> "new", arg |-> <<qr_text>>, res |-> Ok(<<>>), decoded |-> FALSE]

InitJni ==
    /\ CoreIdle /\ WasmIdle /\ RestIdle
    /\ \E qr_text \in JniQrs :
          /\ jni_inner = Some(Decoder_new(qr_text))
          /\ jni_trace = <<JniNew(qr_text)>>

JniCall(op, arg, out) ==
    /\ Len(jni_trace) <= MaxCalls
    /\ jni_inner' = out.inner
    /\ jni_trace' = Append(jni_trace, [op |-> op, arg |-> arg, res |-> out.res,
                                       decoded |-> out.decoded])
    /\ UNCHANGED <<core_vars, wasm_decoder, wasm_trace, rest_vars>>

JniVerifyWithEd25519 ==
    \E public_key \in JniKeys :
        JniCall("verify_with_ed25519", public_key,
                with_decoder(jni_inner, "verify_with_ed25519", public_key))

JniAllowUnverified ==
    JniCall("allow_unverified", <<>>, with_decoder(jni_inner, "allow_unverified", <<>>))

JniWithoutTimestampValidation ==
    JniCall("without_timestamp_validation", <<>>,
            with_decoder(jni_inner, "without_timestamp_validation", <<>>))

JniClockSkewTolerance ==
    \E seconds \in JniSkews :
        JniCall("clock_skew_tolerance", <<seconds>>,
                Claim169Decoder_clock_skew_tolerance(jni_inner, seconds))

JniExecute == JniCall("execute", <<>>, Claim169Decoder_execute(jni_inner, JniEnv))

NextJni ==
    \/ JniVerifyWithEd25519
    \/ JniAllowUnverified
    \/ JniWithoutTimestampValidation
    \/ JniClockSkewTolerance
    \/ JniExecute

SpecJni == InitJni /\ [][NextJni]_vars

-----------------------------------------------------------------------------
(* The WebAssembly decoder: one WasmDecoder, the calls a program makes on  *)
(* it one after the other, for as long as it holds the decoder.            *)

WasmEnv == Env(FALSE, BUFFER_SIZE, TRUE, 7)
WasmQrs == {TimeQr(None, None), TimeQr(Some(7), None)}
WasmEd25519Keys == {IssuerKey, ShortKey}
WasmVerifiers == {"Ok", "VerificationFailed"}
WasmSkews == {-1, 2}

WasmNew(qr_text) == [op |-> "new", arg |-> <<qr_text>>, res |-> Ok(<<>>), core |-> <<>>]

InitWasm ==
    /\ CoreIdle /\ JniIdle /\ RestIdle
    /\ \E qr_text \in WasmQrs :
          /\ wasm_decoder = Some(WasmDecoder_new(qr_text))
          /\ wasm_trace = <<WasmNew(qr_text)>>

WasmCall(op, arg, out) ==
    /\ Len(wasm_trace) <= MaxCalls
    /\ wasm_decoder' = out.decoder
    /\ wasm_trace' = Append(wasm_trace, [op |-> op, arg |-> arg, res |-> out.res,
                                         core |-> out.core])
    /\ UNCHANGED <<core_vars, jni_inner, jni_trace, rest_vars>>

WasmVerifyWithEd25519 ==
    /\ wasm_decoder # None
    /\ \E public_key \in WasmEd25519Keys :
          WasmCall("verify_with_ed25519", public_key,
                   WasmDecoder_verify_with_ed25519(Unwrap(wasm_decoder), public_key))

WasmVerifyWithEcdsaP256 ==
    /\ wasm_decoder # None
    /\ WasmCall("verify_with_ecdsa_p256", P256Key,
                WasmDecoder_verify_with_ecdsa_p256(Unwrap(wasm_decoder), P256Key))

WasmVerifyWith ==
    /\ wasm_decoder # None
    /\ \E verifier \in WasmVerifiers :
          WasmCall("verify_with", <<verifier>>,
                   WasmDecoder_verify_with(Unwrap(wasm_decoder), verifier))

WasmAllowUnverified ==
    /\ wasm_decoder # None
    /\ WasmCall("allow_unverified", <<>>, WasmDecoder_allow_unverified(Unwrap(wasm_decoder)))

WasmWithTimestampValidation ==
    /\ wasm_decoder # None
    /\ WasmCall("with_timestamp_validation", <<>>,
                WasmDecoder_with_timestamp_validation(Unwrap(wasm_decoder)))

WasmClockSkewTolerance ==
    /\ wasm_decoder # None
    /\ \E seconds \in WasmSkews :
          WasmCall("clock_skew_tolerance", <<seconds>>,
                   WasmDecoder_clock_skew_tolerance(Unwrap(wasm_decoder), seconds))

WasmDecode ==
    /\ wasm_decoder # None
    /\ WasmCall("decode", <<>>, WasmDecoder_decode(Unwrap(wasm_decoder), WasmEnv))

NextWasm ==
    \/ WasmVerifyWithEd25519
    \/ WasmVerifyWithEcdsaP256
    \/ WasmVerifyWith
    \/ WasmAllowUnverified
    \/ WasmWithTimestampValidation
    \/ WasmClockSkewTolerance
    \/ WasmDecode

SpecWasm == InitWasm /\ [][NextWasm]_vars

-----------------------------------------------------------------------------
(* The claim 169 transform on its own: one call of transform on a CBOR     *)
(* value, or one call of to_cbor on a Claim169 followed by transform.      *)

VFloat(f) == [t |-> "Float", v |-> f]
VTag(tag, v) == [t |-> "Tag", v |-> <<tag, v>>]

\* an integer a ciborium Integer holds and an i64 does not
TooBig == I64_MAX + 1

TrScalars ==
    {VInteger(1), VInteger(5), VInteger(TooBig), VText("a"), VText("ff"),
     VBytes(<<1>>), VFloat("nan"), VFloat("finite"), VTag(1, VInteger(0))}

\* arrays for key 18: fingers in range, out of range, and values that are no
\* integers, in every order
FingerItems == {VInteger(0), VInteger(10), VInteger(11), VInteger(-1), VText("a")}
FingerArrays == {VArray(a) : a \in UNION {[1..n -> FingerItems] : n \in 0..MaxLen}}

\* biometric maps: data present or not, format absent, known or unknown,
\* sub_format absent, known for some format, vendor specific, or unassigned
BiometricFormats == {None, Some(VInteger(0)), Some(VInteger(1)), Some(VInteger(2)),
                     Some(VInteger(3)), Some(VInteger(9)), Some(VText("a"))}
BiometricSubFormats == {None, Some(VInteger(0)), Some(VInteger(5)), Some(VInteger(150)),
                        Some(VInteger(TooBig)), Some(VText("a"))}
BiometricMap(data, format, sub_format) ==
    VMap(Flatten(<<
        IF sub_format = None THEN None ELSE Some(<<VInteger(2), Unwrap(sub_format)>>),
        IF data THEN Some(<<VInteger(0), VBytes(<<7>>)>>) ELSE None,
        IF format = None THEN None ELSE Some(<<VInteger(1), Unwrap(format)>>)>>))
BiometricMaps ==
    {BiometricMap(data, format, sub_format) :
        data \in BOOLEAN, format \in BiometricFormats, sub_format \in BiometricSubFormats}
BiometricArrays ==
    {VArray(<<BiometricMap(TRUE, Some(VInteger(0)), Some(VInteger(5))), m>>) :
        m \in {BiometricMap(TRUE, None, Some(VInteger(5))),
                BiometricMap(FALSE, None, None), VText("a")}}

NestedValues ==
    {VArray(<<VFloat("nan"), VInteger(1)>>),
     VMap(<<<<VText("k"), VTag(1, VInteger(0))>>, <<VInteger(2), VText("a")>>>>)}

TrVals == TrScalars \cup FingerArrays \cup BiometricMaps \cup BiometricArrays
              \cup NestedValues
TrKeys == {VInteger(1), VInteger(9), VInteger(16), VInteger(18), VInteger(50),
           VInteger(99), VInteger(-3), VInteger(TooBig), VText("k")}

\* the entries of the two-entry maps
TrSmallEntries ==
    {<<VInteger(1), VText("a")>>, <<VInteger(1), VInteger(5)>>,
     <<VInteger(99), VText("a")>>, <<VInteger(99), VFloat("nan")>>,
     <<VInteger(-3), VInteger(TooBig)>>, <<VInteger(TooBig), VText("a")>>,
     <<VText("k"), VText("a")>>, <<VInteger(18), VArray(<<VInteger(3)>>)>>,
     <<VInteger(18), VText("a")>>}

TransformValues ==
    TrScalars
    \cup {VMap(<<>>)}
    \cup {VMap(<<<<k, v>>>>) : k \in TrKeys, v \in TrVals}
    \cup {VMap(<<e1, e2>>) : e1 \in TrSmallEntries, e2 \in TrSmallEntries}

\* Claim169 values for to_cbor: an id, a gender, a photo, fingers and the
\* biometrics of the right thumb, each present or not
ImageSubFormat(value) == [t |-> "Image", v |-> value]
TemplateSubFormat(value) == [t |-> "Template", v |-> value]
RawSubFormat(value) == [t |-> "Raw", v |-> value]
ClaimBiometrics ==
    {Biometric(<<7>>, Some(0), Some(ImageSubFormat(1)), Some("a")),
     Biometric(<<7>>, Some(1), Some(TemplateSubFormat(150)), None),
     Biometric(<<7>>, Some(3), Some(RawSubFormat(4)), None),
     Biometric(<<>>, None, None, None),
     Biometric(<<7>>, None, Some(RawSubFormat(5)), None),
     Biometric(<<7>>, Some(1), Some(ImageSubFormat(1)), None),
     Biometric(<<7>>, Some(0), Some(ImageSubFormat(50)), None)}
ClaimBiometricLists ==
    {<<>>} \cup {<<b>> : b \in ClaimBiometrics}
        \cup {<<Biometric(<<7>>, Some(0), Some(ImageSubFormat(1)), Some("a")),
                 Biometric(<<>>, None, None, None)>>}
ClaimFingers == {<<1, 10>>, <<10, 1>>, <<>>, <<11>>, <<3, 11>>}
OptionOf(S) == {None} \cup {Some(x) : x \in S}
Claims ==
    {[Claim169_default EXCEPT !.fields[1] = id, !.fields[9] = gender, !.fields[16] = photo,
                              !.fields[18] = fingers, !.fields[50] = right_thumb] :
        id \in OptionOf({"a"}), gender \in OptionOf({1, 3}), photo \in OptionOf({<<1>>}),
        fingers \in OptionOf(ClaimFingers), right_thumb \in OptionOf(ClaimBiometricLists)}

CallTransform(value, skip_biometrics) ==
    [op |-> "transform", value |-> value, skip_biometrics |-> skip_biometrics]
CallToCbor(claim) == [op |-> "to_cbor", claim |-> claim]

InitTransform ==
    /\ CoreIdle /\ JniIdle /\ WasmIdle /\ RtIdle /\ ThreadsIdle
    /\ tr_result = NoResult
    /\ \/ \E value \in TransformValues, skip_biometrics \in BOOLEAN :
             tr_call = CallTransform(value, skip_biometrics)
       \/ \E claim \in Claims : tr_call = CallToCbor(claim)

Transform ==
    /\ tr_call.op = "transform"
    /\ tr_result = NoResult
    /\ tr_result' = transform(tr_call.value, tr_call.skip_biometrics)
    /\ UNCHANGED <<core_vars, binding_vars, tr_call, rt_call, rt_result>>
    /\ UNCHANGED <<jni_mutex, jni_threads, jni_order>>

\* to_cbor, then transform on the value it returned
ToCborThenTransform ==
    /\ tr_call.op = "to_cbor"
    /\ tr_result = NoResult
    /\ tr_result' = transform(to_cbor(tr_call.claim), FALSE)
    /\ UNCHANGED <<core_vars, binding_vars, tr_call, rt_call, rt_result>>
    /\ UNCHANGED <<jni_mutex, jni_threads, jni_order>>

NextTransform == Transform \/ ToCborThenTransform

SpecTransform == InitTransform /\ [][NextTransform]_vars

-----------------------------------------------------------------------------
(* Compression and back: one call of compress on a byte string in a mode,  *)
(* then decompress on the bytes it returned.                               *)

RtBytes == {0, 3, 11, ZLIB_MAGIC, 210}
RtData ==
    UNION {[1..n -> RtBytes] : n \in 0..MaxLen}
    \cup {[i \in 1..6 |-> b] : b \in {0, ZLIB_MAGIC, 210}}
    \cup {<<ZLIB_MAGIC, 0, 0, 0, 0, 0>>, <<11, 210, 0, 0, 0, 3>>}
RtModes(brotli) ==
    {"Zlib", "None", "Adaptive"} \cup (IF brotli THEN {"Brotli", "AdaptiveBrotli"} ELSE {})

CallCompress(data, mode, max_bytes, env) ==
    [op |-> "compress", data |-> data, mode |-> mode, max_bytes |-> max_bytes, env |-> env]

InitCompress ==
    /\ CoreIdle /\ JniIdle /\ WasmIdle /\ TrIdle /\ ThreadsIdle
    /\ rt_result = NoRoundTrip
    /\ \E data \in RtData, brotli \in BOOLEAN, read_size \in ReadSizes :
          \E mode \in RtModes(brotli),
             max_bytes \in {Max(Len(data) - 1, 0), Len(data), Len(data) + 1} :
              rt_call = CallCompress(data, mode, max_bytes, Env(brotli, read_size, TRUE, 0))

CompressThenDecompress ==
    /\ rt_call.op = "compress"
    /\ rt_result = NoRoundTrip
    /\ LET compressed == compress(rt_call.data, rt_call.mode)
       IN  rt_result' = [compressed |-> compressed,
                         res |-> decompress(compressed.bytes, rt_call.max_bytes,
                                            rt_call.env)]
    /\ UNCHANGED <<core_vars, binding_vars, tr_call, tr_result, rt_call>>
    /\ UNCHANGED <<jni_mutex, jni_threads, jni_order>>

NextCompress == CompressThenDecompress

SpecCompress == InitCompress /\ [][NextCompress]_vars

-----------------------------------------------------------------------------
(* The JNI decoder shared by threads: each thread makes one call on the    *)
(* same Claim169Decoder.  A call is a sequence of steps: it locks inner,   *)
(* takes the decoder out of the guard, and either stores the transformed   *)
(* decoder and returns (a builder method: the guard lives to the end of    *)
(* with_decoder) or returns from take_decoder, which drops the guard, and  *)
(* decodes with the decoder it owns (execute).  Mutex::lock blocks while   *)
(* another thread holds the guard; a poisoned mutex is entered all the     *)
(* same (unwrap_or_else(|e| e.into_inner())).  jni_order records the       *)
(* threads in the order in which they locked inner, or returned without    *)
(* locking it.  The threads are interchangeable, so their calls are drawn  *)
(* in one order only.                                                      *)

NThreads == 3

Threads == 1..NThreads

ThreadCalls ==
    <<[op |-> "execute", arg |-> <<>>],
      [op |-> "allow_unverified", arg |-> <<>>],
      [op |-> "verify_with_ed25519", arg |-> IssuerKey],
      [op |-> "verify_with_ed25519", arg |-> ShortKey],
      [op |-> "clock_skew_tolerance", arg |-> <<-1>>],
      [op |-> "clock_skew_tolerance", arg |-> <<2>>]>>

ThreadQrs == {TimeQr(None, None), TimeQr(Some(5), None)}

Thread(call, pc, decoder, res, decoded) ==
    [op |-> call.op, arg |-> call.arg, pc |-> pc, decoder |-> decoder, res |-> res,
     decoded |-> decoded]

InitThreads ==
    /\ CoreIdle /\ WasmIdle /\ TrIdle /\ RtIdle
    /\ \E qr_text \in ThreadQrs :
          /\ jni_inner = Some(Decoder_new(qr_text))
          /\ jni_trace = <<JniNew(qr_text)>>
    /\ jni_mutex = None
    /\ jni_order = <<>>
    /\ \E choice \in [Threads -> DOMAIN ThreadCalls] :
          /\ \A t \in Threads : t > 1 => choice[t - 1] <= choice[t]
          /\ jni_threads = [t \in Threads |->
                               Thread(ThreadCalls[choice[t]], "call", None, NoResult, FALSE)]

ThreadChecksFirst(t) ==
    jni_threads[t].op = "clock_skew_tolerance" /\ jni_threads[t].arg[1] < 0

ThreadReturns(t, res) ==
    jni_threads' = [jni_threads EXCEPT ![t].pc = "done", ![t].res = res]

\* clock_skew_tolerance: `if seconds < 0 { return Err(..) }` before with_decoder
ThreadRejectsSkew(t) ==
    /\ jni_threads[t].pc = "call"
    /\ ThreadChecksFirst(t)
    /\ ThreadReturns(t, NegativeSkew)
    /\ jni_order' = Append(jni_order, t)
    /\ UNCHANGED <<core_vars, binding_vars, tr_call, tr_result, rt_call, rt_result, jni_mutex>>

\* a lock that does not wait for the guard to be free
ThreadLocks_without_waiting(t) ==
    /\ jni_threads[t].pc = "call"
    /\ ~ThreadChecksFirst(t)
    /\ jni_mutex' = Some(t)
    /\ jni_threads' = [jni_threads EXCEPT ![t].pc = "locked"]
    /\ jni_order' = Append(jni_order, t)
    /\ UNCHANGED <<core_vars, binding_vars, tr_call, tr_result, rt_call, rt_result>>

\* self.inner.lock(): returns once no other thread holds the guard
ThreadLocks(t) ==
    /\ jni_threads[t].pc = "call"
    /\ ~ThreadChecksFirst(t)
    /\ jni_mutex = None
    /\ jni_mutex' = Some(t)
    /\ jni_threads' = [jni_threads EXCEPT ![t].pc = "locked"]
    /\ jni_order' = Append(jni_order, t)
    /\ UNCHANGED <<core_vars, binding_vars, tr_call, tr_result, rt_call, rt_result>>

\* guard.take().ok_or_else(..)?: the decoder leaves inner; when inner is empty the
\* call returns "decoder already consumed" and the guard is dropped
ThreadTakes(t) ==
    /\ jni_threads[t].pc = "locked"
    /\ IF jni_inner = None
       THEN /\ ThreadReturns(t, AlreadyConsumed)
            /\ jni_mutex' = None
            /\ UNCHANGED jni_inner
       ELSE /\ jni_threads' = [jni_threads EXCEPT ![t].pc = "taken", ![t].decoder = jni_inner]
            /\ jni_inner' = None
            /\ UNCHANGED jni_mutex
    /\ UNCHANGED <<core_vars, jni_trace, wasm_decoder, wasm_trace>>
    /\ UNCHANGED <<tr_call, tr_result, rt_call, rt_result, jni_order>>

\* with_decoder: `*guard = Some(f(decoder)?)`, then the guard is dropped; when f
\* fails the `?` returns its error and nothing is stored
ThreadPutsBack(t) ==
    /\ jni_threads[t].pc = "taken"
    /\ jni_threads[t].op # "execute"
    /\ LET applied == Closure(jni_threads[t].op, jni_threads[t].arg,
                              Unwrap(jni_threads[t].decoder))
       IN  IF applied.ok
           THEN /\ jni_inner' = Some(applied.val)
                /\ jni_threads' = [jni_threads EXCEPT ![t].pc = "done", ![t].res = Ok(<<>>),
                                                      ![t].decoder = None]
           ELSE /\ UNCHANGED jni_inner
                /\ jni_threads' = [jni_threads EXCEPT ![t].pc = "done", ![t].res = applied,
                                                      ![t].decoder = None]
    /\ jni_mutex' = None
    /\ UNCHANGED <<core_vars, jni_trace, wasm_decoder, wasm_trace>>
    /\ UNCHANGED <<tr_call, tr_result, rt_call, rt_result, jni_order>>

\* execute: take_decoder returns the decoder and drops the guard
ThreadUnlocks(t) ==
    /\ jni_threads[t].pc = "taken"
    /\ jni_threads[t].op = "execute"
    /\ jni_mutex' = None
    /\ jni_threads' = [jni_threads EXCEPT ![t].pc = "decode"]
    /\ UNCHANGED <<core_vars, binding_vars, tr_call, tr_result, rt_call, rt_result, jni_order>>

\* the decoders the calls of ThreadCalls can build from Claim169Decoder::new
ThreadDecoders ==
    {Decoder(qr_text, verifier, None,
             [DecodeOptions_default EXCEPT !.allow_unverified = allow_unverified,
                                           !.clock_skew_tolerance_seconds = seconds]) :
        qr_text \in ThreadQrs, verifier \in {None, Some(Ed25519Verifier(IssuerKey))},
        allow_unverified \in BOOLEAN, seconds \in {0, 2}}

\* Decoder::decode of each of them, evaluated once
ThreadDecodeOf == [d \in ThreadDecoders |-> Decoder_decode(d, JniEnv)]

\* execute: decoder.decode(), outside the lock
ThreadDecodes(t) ==
    /\ jni_threads[t].pc = "decode"
    /\ jni_threads' = [jni_threads EXCEPT
                          ![t].pc = "done",
                          ![t].res = ThreadDecodeOf[Unwrap(jni_threads[t].decoder)],
                          ![t].decoded = TRUE]
    /\ UNCHANGED <<core_vars, binding_vars, tr_call, tr_result, rt_call, rt_result>>
    /\ UNCHANGED <<jni_mutex, jni_order>>

ThreadStep(t) ==
    \/ ThreadRejectsSkew(t)
    \/ ThreadLocks(t)
    \/ ThreadTakes(t)
    \/ ThreadPutsBack(t)
    \/ ThreadUnlocks(t)
    \/ ThreadDecodes(t)

NextThreads == \E t \in Threads : ThreadStep(t)

\* while some thread can take a step, some thread takes one in the end: the
\* scheduler runs a runnable thread, and when the guard is free one of the threads
\* waiting in lock() gets it
ThreadsFair == WF_vars(NextThreads)

SpecThreads == InitThreads /\ [][NextThreads]_vars /\ ThreadsFair

-----------------------------------------------------------------------------
(* Vocabulary of the envelope properties: the call that was made and what  *)
(* it was given.                                                           *)

CoseDone == cose_result # NoOut

IsSign1Bytes(b) == b.k = "sign1" /\ b.tag \in {None, Some(COSE_SIGN1_TAG)}
IsEncrypt0Bytes(b) == b.k = "encrypt0" /\ b.tag \in {None, Some(COSE_ENCRYPT0_TAG)}

ByResolver == cose_call.op = "parse_with_resolver"
VerifierSupplied == cose_call.op = "parse_and_verify" /\ cose_call.verifier # None
DecryptorSupplied == cose_call.op = "parse_and_verify" /\ cose_call.decryptor # None

Called(cap) == \E i \in 1..Len(cose_result.calls) : cose_result.calls[i].cap = cap
TheCall(cap) ==
    cose_result.calls[CHOOSE i \in 1..Len(cose_result.calls) : cose_result.calls[i].cap = cap]

\* the answer of the verifier / decryptor in use
VerifierAnswer ==
    IF ByResolver THEN cose_call.resolver.resolve_verifier.val ELSE Unwrap(cose_call.verifier)
DecryptorAnswer ==
    IF ByResolver THEN cose_call.resolver.resolve_decryptor.val ELSE Unwrap(cose_call.decryptor)

TopSign1 == IsSign1Bytes(cose_call.data)
TopEncrypt0 == IsEncrypt0Bytes(cose_call.data)
Decrypted == TopEncrypt0 /\ Called("decrypt") /\ DecryptorAnswer.ok
Plaintext == DecryptorAnswer.val
NestedSign1 == Decrypted /\ IsSign1Bytes(Plaintext)
\* the Sign1 that is processed, at the top level or inside the Encrypt0
TheSign1 == IF TopSign1 THEN cose_call.data.body ELSE Plaintext.body
TheEncrypt0 == cose_call.data.body

HasAssignedAlg(header) == IsSome(header.alg) /\ Unwrap(header.alg).t = "Assigned"
NoIv(encrypt0) == encrypt0.protected.iv = <<>> /\ encrypt0.unprotected.iv = <<>>

ErrKind(kind) == ~cose_result.res.ok /\ cose_result.res.err.kind = kind
OkStatus(status) == cose_result.res.ok /\ cose_result.res.val.verification_status = status

-----------------------------------------------------------------------------
\* C2: a Sign1 (top-level or nested in an Encrypt0) without an algorithm in its
\* protected header, processed with a verifier or a key resolver, gives a CoseParse
\* error, also when the unprotected header names an algorithm.
C2_MissingAlgIsCoseParse ==
    (CoseDone /\ (TopSign1 \/ NestedSign1) /\ (VerifierSupplied \/ ByResolver)
        /\ ~HasAssignedAlg(TheSign1.protected))
    => ErrKind("CoseParse")

C2_Witness ==
    /\ CoseDone /\ NestedSign1 /\ VerifierSupplied
    /\ TheSign1.protected.alg = None
    /\ TheSign1.unprotected.alg # None
    /\ TheSign1.payload # None
    /\ VerifierAnswer = "Ok"
    /\ ErrKind("CoseParse")

\* C4: with a verifier, a payload and a protected-header algorithm, the verifier's
\* answer decides: Ok gives Verified, VerificationFailed gives an Ok result with
\* status Failed, any other error is an error.
C4_VerifierDecides ==
    (CoseDone /\ (TopSign1 \/ NestedSign1) /\ VerifierSupplied
        /\ HasAssignedAlg(TheSign1.protected) /\ TheSign1.payload # None)
    => /\ Called("verify")
       /\ VerifierAnswer = "Ok" => OkStatus("Verified")
       /\ VerifierAnswer = "VerificationFailed" => OkStatus("Failed")
       /\ VerifierAnswer \notin {"Ok", "VerificationFailed"} => ~cose_result.res.ok

C4_Witness ==
    /\ CoseDone /\ TopSign1 /\ VerifierSupplied
    /\ HasAssignedAlg(TheSign1.protected) /\ TheSign1.payload # None
    /\ VerifierAnswer = "VerificationFailed"
    /\ OkStatus("Failed")

\* C5 (as claimed): an Encrypt0 without a protected-header algorithm, processed
\* with a decryptor or a key resolver, gives CoseParse whatever else is missing.
C5_MissingAlgIsCoseParse ==
    (CoseDone /\ TopEncrypt0 /\ (DecryptorSupplied \/ ByResolver)
        /\ TheEncrypt0.protected.alg = None)
    => ErrKind("CoseParse")

\* C6 (as claimed): an Encrypt0 without an IV in either header, processed with a
\* decryptor or a key resolver, gives DecryptionFailed.
C6_NoIvIsDecryptionFailed ==
    (CoseDone /\ TopEncrypt0 /\ (DecryptorSupplied \/ ByResolver) /\ NoIv(TheEncrypt0))
    => ErrKind("DecryptionFailed")

\* C6 (amended): an Encrypt0 that has a protected-header algorithm and no IV in
\* either header, processed with a decryptor or with a key resolver that resolves a
\* decryptor, gives DecryptionFailed and the decryptor is never called.
C6_NoIvWithAlgIsDecryptionFailed ==
    (CoseDone /\ TopEncrypt0 /\ NoIv(TheEncrypt0) /\ HasAssignedAlg(TheEncrypt0.protected)
        /\ (DecryptorSupplied \/ (ByResolver /\ cose_call.resolver.resolve_decryptor.ok)))
    => ErrKind("DecryptionFailed") /\ ~Called("decrypt")

C6_Witness ==
    /\ CoseDone /\ TopEncrypt0 /\ NoIv(TheEncrypt0) /\ HasAssignedAlg(TheEncrypt0.protected)
    /\ ByResolver /\ cose_call.resolver.resolve_decryptor.ok
    /\ TheEncrypt0.ciphertext # None
    /\ ErrKind("DecryptionFailed")

\* C7 (as claimed): an Encrypt0 whose plaintext parses as a Sign1, with an inner
\* verifier that passes or reports VerificationFailed, gives an Ok result carrying
\* the inner payload, algorithm and key_id, with status Verified resp. Failed.
NestedResultIs(status) ==
    /\ OkStatus(status)
    /\ cose_result.res.val.payload = Unwrap(TheSign1.payload)
    /\ cose_result.res.val.algorithm = Some(Unwrap(TheSign1.protected.alg).a)
    /\ cose_result.res.val.key_id =
          (IF TheSign1.protected.key_id # <<>> THEN Some(TheSign1.protected.key_id)
           ELSE IF TheSign1.unprotected.key_id # <<>> THEN Some(TheSign1.unprotected.key_id)
           ELSE None)

C7_NestedSign1IsOk ==
    (CoseDone /\ NestedSign1 /\ VerifierSupplied
        /\ VerifierAnswer \in {"Ok", "VerificationFailed"})
    => /\ TheSign1.payload # None /\ HasAssignedAlg(TheSign1.protected)
       /\ VerifierAnswer = "Ok" => NestedResultIs("Verified")
       /\ VerifierAnswer = "VerificationFailed" => NestedResultIs("Failed")

\* C7 (amended): an Encrypt0 whose plaintext parses as a Sign1 that has a payload
\* and a protected-header algorithm, with an inner verifier that passes or reports
\* VerificationFailed, gives an Ok result carrying the inner payload, algorithm and
\* key_id, with status Verified resp. Failed.
C7_NestedSign1WithAlgIsOk ==
    (CoseDone /\ NestedSign1 /\ VerifierSupplied
        /\ TheSign1.payload # None /\ HasAssignedAlg(TheSign1.protected)
        /\ VerifierAnswer \in {"Ok", "VerificationFailed"})
    => /\ VerifierAnswer = "Ok" => NestedResultIs("Verified")
       /\ VerifierAnswer = "VerificationFailed" => NestedResultIs("Failed")

C7_Witness ==
    /\ CoseDone /\ NestedSign1 /\ VerifierSupplied
    /\ VerifierAnswer = "VerificationFailed"
    /\ TheEncrypt0.protected.key_id = <<1>>
    /\ NestedResultIs("Failed")
    /\ cose_result.res.val.key_id = Some(<<3>>)
    /\ cose_result.res.val.algorithm = Some("EdDSA")

\* C8: a decrypted plaintext that is not a Sign1 (tagged or untagged) is returned
\* unchanged as the payload, with status Skipped and the outer Encrypt0's algorithm,
\* key_id and X.509 headers, whether or not a verifier was supplied.
C8_RawPlaintextIsSkipped ==
    (CoseDone /\ Decrypted /\ ~IsSign1Bytes(Plaintext))
    => /\ OkStatus("Skipped")
       /\ cose_result.res.val.payload = Plaintext
       /\ cose_result.res.val.algorithm = Some(Unwrap(TheEncrypt0.protected.alg).a)
       /\ cose_result.res.val.key_id =
             (IF TheEncrypt0.protected.key_id # <<>> THEN Some(TheEncrypt0.protected.key_id)
              ELSE IF TheEncrypt0.unprotected.key_id # <<>>
                   THEN Some(TheEncrypt0.unprotected.key_id)
              ELSE None)
       /\ cose_result.res.val.x509_headers =
             get_x509_headers(TheEncrypt0.protected, TheEncrypt0.unprotected)
       /\ ~Called("verify")

C8_Witness ==
    /\ CoseDone /\ Decrypted /\ Plaintext.k = "encrypt0"
    /\ VerifierSupplied /\ VerifierAnswer = "Ok"
    /\ OkStatus("Skipped")
    /\ cose_result.res.val.key_id = Some(<<2>>)
    /\ cose_result.res.val.x509_headers.x5u = Some("https://a")

-----------------------------------------------------------------------------
(* Vocabulary of the decompression and decode properties                   *)

DzDone == dz_result # NoResult

DecDone == dec_result # NoDecodeOut
DecOk == dec_result.res.ok
DecErr(kind) == ~dec_result.res.ok /\ dec_result.res.err.kind = kind
DecStatus == dec_result.res.val.verification_status

\* no verifier is handed to the decode: decode, or decode_encrypted without one
NoVerifier == dec_call.op \in {"decode", "decode_encrypted"} /\ dec_call.verifier = None

\* the item the text carries, the item that was signed, and the CWT inside it
DecItem == dec_call.qr_text.cbor_item
DecDecryptorAnswer ==
    IF dec_call.op = "decode_with_resolver" THEN dec_call.resolver.resolve_decryptor.val
    ELSE Unwrap(dec_call.decryptor)
DecInnerItem == IF DecItem.k = "encrypt0" THEN DecDecryptorAnswer.val ELSE DecItem
DecPayload ==
    IF DecInnerItem.k = "sign1" THEN Unwrap(DecInnerItem.body.payload) ELSE DecInnerItem

\* the decode got as far as the timestamp validation
ReachedTimestamps == dec_result.stage \in {"timestamps", "transform", "done"}

-----------------------------------------------------------------------------
\* C1: every decode call that returns Ok has status Verified, or status Skipped with
\* allow_unverified set; no Ok result carries Failed, and none carries Skipped when
\* allow_unverified is false.
C1_OkIsVerifiedOrAllowed ==
    (DecDone /\ DecOk)
    => \/ DecStatus = "Verified"
       \/ DecStatus = "Skipped" /\ dec_call.options.allow_unverified

C1_Witness ==
    /\ DecDone /\ DecOk
    /\ dec_call.op = "decode_encrypted"
    /\ DecStatus = "Skipped" /\ dec_call.options.allow_unverified
    /\ dec_call.verifier # None

\* C3 (as claimed): for every QR text, a decode with allow_unverified = false and no
\* verifier returns SignatureInvalid.
C3_NoVerifierIsSignatureInvalid ==
    (DecDone /\ ~dec_call.options.allow_unverified /\ NoVerifier)
    => DecErr("SignatureInvalid")

\* C3 (amended): a decode with allow_unverified = false and no verifier never returns
\* Ok, and it returns SignatureInvalid whenever Base45 decoding, decompression and
\* the COSE stage succeed.
C3_NoVerifierNeverOk ==
    (DecDone /\ ~dec_call.options.allow_unverified /\ NoVerifier)
    => /\ ~DecOk
       /\ dec_result.stage \in {"base45", "decompress", "cose", "gate"}
       /\ dec_result.stage = "gate" => DecErr("SignatureInvalid")

C3_Witness ==
    /\ DecDone /\ ~dec_call.options.allow_unverified /\ NoVerifier
    /\ dec_call.op = "decode_encrypted"
    /\ dec_result.stage = "gate"
    /\ DecErr("SignatureInvalid")
    /\ Len(dec_result.calls) = 1

\* C9: with validate_timestamps set, for every exp of the i64 range and every
\* non-negative skew, decode returns Expired(exp) exactly when exp < now - skew over
\* the mathematical integers.
C9_ExpiredIffBeforeNowMinusSkew ==
    (DecDone /\ ReachedTimestamps /\ dec_call.options.validate_timestamps
        /\ IsSome(DecPayload.body.meta.expires_at)
        /\ dec_call.options.clock_skew_tolerance_seconds >= 0)
    => LET exp == Unwrap(DecPayload.body.meta.expires_at)
           skew == dec_call.options.clock_skew_tolerance_seconds
           now == dec_call.env.now
       IN  (~DecOk /\ dec_result.res.err = E("Expired", ToString(exp)))
           <=> (exp < now - skew)

\* C10: decompress returns Ok only with an output of at most max_bytes bytes, on
\* every detection path; a zlib stream whose decoded length is exactly max_bytes
\* succeeds with the decoded bytes, and one whose decoded length is max_bytes + 1
\* fails with DecompressLimitExceeded { max_bytes }.
C10_OutputWithinLimit ==
    DzDone
    => /\ dz_result.ok => Len(dz_result.val.bytes) <= dz_call.max_bytes
       /\ (dz_call.form = "zlib" /\ Len(dz_call.data) = dz_call.max_bytes)
          => dz_result = Ok(Decompressed(dz_call.data, "Zlib"))
       /\ (dz_call.form = "zlib" /\ Len(dz_call.data) = dz_call.max_bytes + 1)
          => dz_result = Err(E("DecompressLimitExceeded", ToString(dz_call.max_bytes)))

C10_Witness ==
    /\ DzDone
    /\ dz_call.form = "zlib" /\ Len(dz_call.data) = dz_call.max_bytes
    /\ dz_call.max_bytes >= 2 /\ dz_call.env.read_size = 1
    /\ dz_result.ok /\ dz_result.val.bytes = dz_call.data

\* C11: for every non-empty input whose first byte is 0x78, decompress returns the
\* zlib-decoded bytes labelled Zlib or fails with an error; it never returns the
\* brotli-decoded bytes or the input itself as raw bytes.
C11_ZlibMagicIsCommitment ==
    (DzDone /\ dz_call.input # <<>> /\ dz_call.input[1] = ZLIB_MAGIC)
    => \/ /\ dz_result.ok
          /\ dz_result.val.detected = "Zlib"
          /\ ZlibDecoder(dz_call.input).valid
          /\ dz_result.val.bytes = ZlibDecoder(dz_call.input).data
       \/ /\ ~dz_result.ok
          /\ dz_result.err.kind \in {"Decompress", "DecompressLimitExceeded"}

\* an input that starts with 0x78, is not a zlib stream and is short enough to be
\* returned as raw bytes, rejected with a Decompress error
C11_Witness ==
    /\ DzDone
    /\ dz_call.form = "raw" /\ dz_call.input # <<>> /\ dz_call.input[1] = ZLIB_MAGIC
    /\ Len(dz_call.input) <= dz_call.max_bytes
    /\ dz_call.env.brotli
    /\ ~dz_result.ok /\ dz_result.err.kind = "Decompress"

\* C12: for every Sign1 structure, parsing its tag-18 encoding and parsing its
\* untagged encoding with the same verifier give the same result: the same payload,
\* verification status, algorithm, key_id and X.509 headers, or the same error.
C12_TaggedAndUntaggedAgree ==
    (CoseDone /\ cose_call.op = "parse_and_verify" /\ cose_call.data.k = "sign1"
        /\ cose_call.data.tag = Some(COSE_SIGN1_TAG))
    => LET untagged == Bytes("sign1", None, cose_call.data.body)
       IN  cose_result.res
             = parse_and_verify(untagged, cose_call.verifier, cose_call.decryptor).res

\* a tag-18 Sign1 with key_id and X.509 headers, verified
C12_Witness ==
    /\ CoseDone /\ cose_call.op = "parse_and_verify" /\ cose_call.data.k = "sign1"
    /\ cose_call.data.tag = Some(COSE_SIGN1_TAG)
    /\ cose_result.res.ok
    /\ cose_result.res.val.verification_status = "Verified"
    /\ IsSome(cose_result.res.val.key_id)
    /\ cose_result.res.val.x509_headers # X509Headers_default
    /\ cose_result.res.val.payload = RawBytes(1)

\* the labels of a header's remaining entries, and the value of the first entry
\* that carries a label
RestLabels(rest) == {rest[i][1] : i \in DOMAIN rest}
RestValue(rest, label) ==
    rest[CHOOSE i \in DOMAIN rest :
            rest[i][1] = label /\ \A j \in 1..(i - 1) : rest[j][1] # label][2]

\* what x509_headers reports for a label
Reported(headers, label) ==
    CASE label = 32 -> headers.x5bag
      [] label = 33 -> headers.x5chain
      [] label = 34 -> headers.x5t
      [] label = 35 -> headers.x5u

\* C13: for each X.509 label 32, 33, 34 and 35 that appears in both the protected
\* and the unprotected header of a Sign1, the value reported in x509_headers is the
\* one read from the protected header's entry, never the unprotected one.
C13_ProtectedX509Wins ==
    (CoseDone /\ cose_call.data.k = "sign1" /\ cose_result.res.ok)
    => \A label \in 32..35 :
          LET protected == cose_call.data.body.protected.rest
              unprotected == cose_call.data.body.unprotected.rest
          IN  (label \in RestLabels(protected) /\ label \in RestLabels(unprotected))
              => Reported(cose_result.res.val.x509_headers, label)
                   = Reported(X509Entry(X509Headers_default, label,
                                        RestValue(protected, label)), label)

\* C14: the nonce handed to the decryptor is the unprotected-header IV whenever that
\* IV is present, and the protected-header IV only when the unprotected header has
\* none.
C14_UnprotectedIvFirst ==
    (CoseDone /\ TopEncrypt0 /\ Called("decrypt"))
    => /\ TheEncrypt0.unprotected.iv # <<>>
          => TheCall("decrypt").nonce = TheEncrypt0.unprotected.iv
       /\ TheEncrypt0.unprotected.iv = <<>>
          => /\ TheEncrypt0.protected.iv # <<>>
             /\ TheCall("decrypt").nonce = TheEncrypt0.protected.iv

\* both headers carry an IV, the two differ, and the decryptor is called
C14_Witness ==
    /\ CoseDone /\ TopEncrypt0 /\ Called("decrypt") /\ ByResolver
    /\ TheEncrypt0.unprotected.iv # <<>> /\ TheEncrypt0.protected.iv # <<>>
    /\ TheEncrypt0.unprotected.iv # TheEncrypt0.protected.iv
    /\ TheCall("decrypt").nonce = TheEncrypt0.unprotected.iv

-----------------------------------------------------------------------------
(* Vocabulary of the claims about the JNI decoder                          *)

JniCalls == 2..Len(jni_trace)
JniFailedWith(i, error) == ~jni_trace[i].res.ok /\ jni_trace[i].res.err = error.err
JniAfterExecute(j) == \E i \in 2..(j - 1) : jni_trace[i].op = "execute"
JniNegativeSkew(j) ==
    jni_trace[j].op = "clock_skew_tolerance" /\ jni_trace[j].arg[1] < 0

\* C15 (as claimed): after execute() has been called once, every later execute() or
\* builder call fails with DecodingConfig "decoder already consumed" and performs no
\* decode.
C15_AfterExecuteAlreadyConsumed ==
    \A j \in JniCalls :
        JniAfterExecute(j) => JniFailedWith(j, AlreadyConsumed) /\ ~jni_trace[j].decoded

\* C15 (amended): after execute() has been called once, whether that decode
\* succeeded or failed, every later execute() or builder call fails with
\* DecodingConfig and performs no decode; the message is "decoder already consumed",
\* except that clock_skew_tolerance with negative seconds reports its own
\* DecodingConfig message, its check coming before the access to the decoder.
C15_AfterExecuteDecodingConfig ==
    \A j \in JniCalls :
        JniAfterExecute(j)
        => /\ ~jni_trace[j].decoded
           /\ ~jni_trace[j].res.ok
           /\ jni_trace[j].res.err.kind = "DecodingConfig"
           /\ IF JniNegativeSkew(j) THEN JniFailedWith(j, NegativeSkew)
              ELSE JniFailedWith(j, AlreadyConsumed)
           /\ jni_inner = None

\* a decode that failed, then an execute, a builder call and a negative skew
C15_Witness ==
    /\ Len(jni_trace) = 5
    /\ jni_trace[2].op = "execute" /\ jni_trace[2].decoded /\ ~jni_trace[2].res.ok
    /\ jni_trace[3].op = "execute" /\ JniFailedWith(3, AlreadyConsumed)
    /\ jni_trace[4].op = "allow_unverified" /\ JniFailedWith(4, AlreadyConsumed)
    /\ JniNegativeSkew(5) /\ JniFailedWith(5, NegativeSkew)

\* what a call recorded in the trace does to inner and returns
JniApply(inner, call) ==
    CASE call.op = "execute" -> Claim169Decoder_execute(inner, JniEnv)
      [] call.op = "clock_skew_tolerance" ->
            Claim169Decoder_clock_skew_tolerance(inner, call.arg[1])
      [] OTHER -> with_decoder(inner, call.op, call.arg)

\* the calls made one after the other on a decoder: what is left in inner and what
\* each call returned
RECURSIVE JniReplay(_, _)
JniReplay(inner, calls) ==
    IF calls = <<>> THEN [inner |-> inner, outs |-> <<>>]
    ELSE LET out == JniApply(inner, Head(calls))
             rest == JniReplay(out.inner, Tail(calls))
         IN  [inner |-> rest.inner,
              outs |-> <<[res |-> out.res, decoded |-> out.decoded]>> \o rest.outs]

JniOuts(calls) == [i \in DOMAIN calls |-> [res |-> calls[i].res, decoded |-> calls[i].decoded]]

\* the calls of the trace after new, without the clock_skew_tolerance calls that had
\* negative seconds
JniOtherCalls == SelectSeq(Tail(jni_trace), LAMBDA call :
                     ~(call.op = "clock_skew_tolerance" /\ call.arg[1] < 0))

\* C18: clock_skew_tolerance(s) with s < 0 returns DecodingConfig and leaves the
\* decoder unchanged and not consumed: every other call returns what it returns,
\* and inner is left as it is left, when the calls with negative seconds are not
\* made at all.
C18_NegativeSkewIsNoOp ==
    /\ \A j \in JniCalls :
          JniNegativeSkew(j)
          => /\ ~jni_trace[j].res.ok
             /\ jni_trace[j].res.err.kind = "DecodingConfig"
             /\ ~jni_trace[j].decoded
    /\ LET replay == JniReplay(Some(Decoder_new(jni_trace[1].arg[1])), JniOtherCalls)
       IN  /\ replay.inner = jni_inner
           /\ replay.outs = JniOuts(JniOtherCalls)

\* a negative skew on a fresh decoder, then a builder call that succeeds and a
\* decode that runs with the default skew and finds the credential expired
C18_Witness ==
    /\ Len(jni_trace) = 4
    /\ JniNegativeSkew(2) /\ JniFailedWith(2, NegativeSkew)
    /\ jni_trace[3].op = "verify_with_ed25519" /\ jni_trace[3].res.ok
    /\ jni_trace[4].op = "execute" /\ jni_trace[4].decoded
    /\ ~jni_trace[4].res.ok /\ jni_trace[4].res.err.kind = "Expired"

-----------------------------------------------------------------------------
(* Vocabulary of the claims about the WebAssembly decoder                  *)

VerificationOps ==
    {"verify_with_ed25519", "verify_with_ecdsa_p256", "verify_with", "allow_unverified"}

WasmLast == wasm_trace[Len(wasm_trace)]
WasmDecoded == WasmLast.op = "decode"
WasmVerificationCalls == {i \in DOMAIN wasm_trace : wasm_trace[i].op \in VerificationOps}
\* the most recent verification builder call
WasmLastVerification ==
    wasm_trace[CHOOSE i \in WasmVerificationCalls : \A j \in WasmVerificationCalls : j <= i]
\* the verification calls decode made on the core decoder
CoreVerificationCalls == SelectSeq(WasmLast.core, LAMBDA call : call.op \in VerificationOps)

\* C16: the verification mode used by decode() is exactly the one set by the most
\* recent verification builder call: the core decoder gets that call, with that
\* call's argument, and no other verification call.
C16_LastVerificationCallWins ==
    (WasmDecoded /\ WasmVerificationCalls # {})
    => CoreVerificationCalls
         = <<CoreCall(WasmLastVerification.op, WasmLastVerification.arg)>>

\* a key, then a custom verifier, then allow_unverified: the decode runs unverified
C16_Witness ==
    /\ Len(wasm_trace) = 5 /\ WasmDecoded
    /\ wasm_trace[2].op = "verify_with_ed25519" /\ wasm_trace[2].arg = IssuerKey
    /\ wasm_trace[3].op = "verify_with" /\ wasm_trace[3].arg = <<"VerificationFailed">>
    /\ wasm_trace[4].op = "allow_unverified"
    /\ WasmLast.res.ok /\ WasmLast.res.val.verification_status = "Skipped"

\* C17: the clock skew used in a timestamp comparison is never negative, so it never
\* narrows the validity window: with timestamp validation on, a credential whose exp
\* is not before the clock is not Expired, and one whose nbf is not after the clock
\* is not NotYetValid (sums within i64).
C17_SkewNeverNarrowsWindow ==
    (DecDone /\ ReachedTimestamps /\ dec_call.options.validate_timestamps)
    => LET meta == DecPayload.body.meta
           skew == dec_call.options.clock_skew_tolerance_seconds
           now == dec_call.env.now
       IN  /\ (IsSome(meta.expires_at) /\ Unwrap(meta.expires_at) >= now
                 /\ Unwrap(meta.expires_at) + skew \in I64)
              => ~DecErr("Expired")
           /\ (IsSome(meta.not_before) /\ Unwrap(meta.not_before) <= now
                 /\ now + skew \in I64)
              => ~DecErr("NotYetValid")

\* the key resolver was asked for the capability of the envelope and could not
\* produce it
ResolverFailed ==
    /\ dec_call.op = "decode_with_resolver"
    /\ dec_result.stage = "cose"
    /\ decompress(dec_call.qr_text.compressed, dec_call.options.max_decompressed_bytes,
                  dec_call.env).val.bytes = dec_call.qr_text.cbor_bytes
    /\ HasAssignedAlg(DecItem.body.protected)
    /\ \/ /\ DecItem.k = "sign1" /\ DecItem.body.payload # None
          /\ ~dec_call.resolver.resolve_verifier.ok
       \/ /\ DecItem.k = "encrypt0"
          /\ ~dec_call.resolver.resolve_decryptor.ok

\* C19: when the key resolver cannot produce a verifier or decryptor for the
\* envelope's (key_id, algorithm), decoding fails with the KeyNotFound error kind.
C19_ResolverFailureIsKeyNotFound ==
    (DecDone /\ ResolverFailed) => DecErr("KeyNotFound")

\* the compression decompress detects on the bytes of the QR text
DecDetected ==
    decompress(dec_call.qr_text.compressed, dec_call.options.max_decompressed_bytes,
               dec_call.env).val.detected

HasWarning(code) ==
    \E i \in DOMAIN dec_result.res.val.warnings : dec_result.res.val.warnings[i] = code

\* C20: whenever a decode succeeds on input whose detected compression is not zlib
\* (brotli or none), the warning list of the result contains a
\* non-standard-compression warning.
C20_NonStandardCompressionWarned ==
    (DecDone /\ DecOk /\ DecDetected # "Zlib") => HasWarning("NonStandardCompression")

-----------------------------------------------------------------------------
(* Vocabulary of the transform properties                                  *)

TrDone == tr_call.op = "transform" /\ tr_result # NoResult
RoundTripDone == tr_call.op = "to_cbor" /\ tr_result # NoResult
TrIsMap == tr_call.value.t = "Map"
TrEntriesOf == IF TrIsMap THEN tr_call.value.v ELSE <<>>
TrIndices == 1..Len(TrEntriesOf)
TrKey(i) == TrEntriesOf[i][1]
TrVal(i) == TrEntriesOf[i][2]
TrIsI64Key(i) == TrKey(i).t = "Integer" /\ TrKey(i).v \in I64
Claim169InvalidReturned == ~tr_result.ok /\ tr_result.err.kind = "Claim169Invalid"

\* C21 as stated: transform returns Claim169Invalid exactly when the top-level
\* value is not a map or some key is not an integer; for every map whose keys are
\* all integers it returns Ok, whatever the types and values of the entries.
C21_InvalidIffNotMapOrNonIntegerKey ==
    TrDone =>
        /\ Claim169InvalidReturned
              <=> (~TrIsMap \/ \E i \in TrIndices : TrKey(i).t # "Integer")
        /\ (TrIsMap /\ \A i \in TrIndices : TrKey(i).t = "Integer") => tr_result.ok

\* C21 amended: transform returns Claim169Invalid exactly when the top-level value
\* is not a map or some key is not an integer that fits an i64; for every map whose
\* keys are all i64 integers it returns Ok, whatever the types and values of the
\* entries.
C21_InvalidIffNotMapOrNonI64Key ==
    TrDone =>
        /\ Claim169InvalidReturned <=> (~TrIsMap \/ \E i \in TrIndices : ~TrIsI64Key(i))
        /\ (TrIsMap /\ \A i \in TrIndices : TrIsI64Key(i)) => tr_result.ok

\* an integer key outside i64 after a well-formed entry is rejected, and a map of
\* mismatched entries is accepted
C21_Witness ==
    /\ TrDone
    /\ \/ /\ Len(TrEntriesOf) = 2 /\ TrIsI64Key(1)
          /\ TrKey(2) = VInteger(TooBig) /\ Claim169InvalidReturned
       \/ /\ Len(TrEntriesOf) = 2 /\ TrKey(1) = VInteger(1) /\ TrVal(1) = VInteger(5)
          /\ TrKey(2) = VInteger(18) /\ TrVal(2) = VText("a") /\ tr_result.ok

\* the keys transform has no field for
TrIsUnknownKey(i) ==
    TrIsI64Key(i) /\ TrKey(i).v \notin (1..23) \cup BiometricKeys

\* C22: every integer key outside 1-23 and 50-65 present in the input map appears
\* in the result's unknown_fields map with a JSON projection of its value; no such
\* key is silently dropped, whatever CBOR value it holds.
C22_UnknownKeysPreserved ==
    (TrDone /\ tr_result.ok) =>
        \A i \in TrIndices :
            TrIsUnknownKey(i) =>
                /\ TrKey(i).v \in DOMAIN tr_result.val.unknown_fields
                /\ \E j \in TrIndices :
                      /\ TrKey(j) = TrKey(i)
                      /\ cbor_to_json(TrVal(j))
                            = Some(tr_result.val.unknown_fields[TrKey(i).v])

\* a call whose map has one entry, a biometric slot holding a single biometric map
\* that was decoded into one entry
TrOneBiometric ==
    /\ TrDone /\ tr_result.ok /\ ~tr_call.skip_biometrics
    /\ Len(TrEntriesOf) = 1 /\ TrIsI64Key(1) /\ TrKey(1).v \in BiometricKeys
    /\ TrVal(1).t = "Map"
    /\ tr_result.val.fields[TrKey(1).v] # None
TrBiometric == Unwrap(tr_result.val.fields[TrKey(1).v])[1]
\* the integers the biometric map carries at a key
TrBiometricInts(key) ==
    {TrVal(1).v[i][2].v : i \in {j \in 1..Len(TrVal(1).v) :
                                   /\ TrVal(1).v[j][1] = VInteger(key)
                                   /\ TrVal(1).v[j][2].t = "Integer"}}

\* C23: for every decoded biometric entry whose CBOR map carries an integer
\* sub_format (key 2), the entry's sub_format is present in the output and converts
\* back to that same integer: a typed variant for known format/sub-format
\* combinations and Raw(value) otherwise; it is never dropped.
C23_SubFormatNeverDropped ==
    TrOneBiometric =>
        \A n \in TrBiometricInts(2) :
            /\ TrBiometric.sub_format # None
            /\ to_value(Unwrap(TrBiometric.sub_format)) = n
            /\ Unwrap(TrBiometric.sub_format).t \in {"Image", "Template", "Sound", "Raw"}

\* C24: for every Claim169 value c with no unknown fields,
\* transform(to_cbor(c), skip_biometrics = false) returns Ok with a value equal to c
\* field for field.
C24_ToCborThenTransformIsIdentity ==
    RoundTripDone => (tr_result.ok /\ tr_result.val = tr_call.claim)

\* a call whose map has an array at key 18 and no other entry for that key
TrFingersArray ==
    /\ TrDone /\ tr_result.ok
    /\ \E i \in TrIndices : TrKey(i) = VInteger(18) /\ TrVal(i).t = "Array"
    /\ Cardinality({i \in TrIndices : TrKey(i) = VInteger(18)}) = 1
TrFingersInput == TrVal(CHOOSE i \in TrIndices : TrKey(i) = VInteger(18)).v
IsFinger(item) == item.t = "Integer" /\ item.v \in 0..10
\* the integers of the input array that lie in [0,10], in their order
TrFingersExpected ==
    LET kept == SelectSeq(TrFingersInput, IsFinger)
    IN  [i \in 1..Len(kept) |-> kept[i].v]

\* C25 as stated: for every input array at key 18, the decoded best_quality_fingers
\* is exactly the subsequence of the input's integers that lie in [0,10], in their
\* original order.
C25_FingersAreTheSubsequence ==
    TrFingersArray => tr_result.val.fields[18] = Some(TrFingersExpected)

\* C25 amended: for every input array at key 18, the decoded best_quality_fingers
\* is exactly the subsequence of the input's integers that lie in [0,10], in their
\* original order, when that subsequence is not empty, and is absent (None) when
\* it is empty.
C25_FingersAreTheSubsequenceOrNone ==
    TrFingersArray =>
        tr_result.val.fields[18]
            = IF TrFingersExpected = <<>> THEN None ELSE Some(TrFingersExpected)

\* two fingers around a value out of range are kept in their order, and an array
\* without a finger gives no field
C25_Witness ==
    /\ TrFingersArray
    /\ \/ /\ TrFingersInput = <<VInteger(10), VInteger(11), VInteger(0)>>
          /\ tr_result.val.fields[18] = Some(<<10, 0>>)
       \/ /\ TrFingersInput = <<VInteger(11), VText("a")>>
          /\ tr_result.val.fields[18] = None

-----------------------------------------------------------------------------
(* Vocabulary of the compression round trip                                *)

RtDone == rt_call.op = "compress" /\ rt_result # NoRoundTrip
RtRoundTrips ==
    /\ rt_result.res.ok
    /\ rt_result.res.val.bytes = rt_call.data
    /\ rt_result.res.val.detected = rt_result.compressed.detected
\* bytes that decompress takes for a zlib stream, or that the brotli decoder of a
\* build with compression-brotli accepts or fails on only by the limit
RtLooksCompressed ==
    /\ rt_call.data # <<>>
    /\ \/ rt_call.data[1] = ZLIB_MAGIC
       \/ /\ rt_call.env.brotli
          /\ LET brotli == decompress_brotli(rt_call.data, rt_call.max_bytes,
                                             rt_call.env.read_size)
             IN  \/ brotli.ok /\ is_valid_cose_prefix(brotli.val)
                 \/ ~brotli.ok /\ brotli.err.kind = "DecompressLimitExceeded"

\* C26 as stated: for every byte string b, whatever its first byte, and every mode
\* in {None, Adaptive}: decompress(compress(b, mode).bytes, limit >= |b|) returns
\* exactly b together with the same DetectedCompression value that compress
\* reported.
C26_CompressThenDecompressIsIdentity ==
    (RtDone /\ rt_call.mode \in {"None", "Adaptive"}
            /\ rt_call.max_bytes >= Len(rt_call.data)) => RtRoundTrips

\* C26 amended: for every byte string b and every mode in {None, Adaptive},
\* decompress(compress(b, mode).bytes, limit >= |b|) returns exactly b together
\* with the DetectedCompression value that compress reported, provided that, when
\* compress stored b as it is, b does not begin with 0x78 and is not a brotli
\* stream that the brotli decoder of the build decodes to COSE-prefixed bytes or
\* decodes beyond the limit.
C26_RoundTripUnlessRawLooksCompressed ==
    (RtDone /\ rt_call.mode \in {"None", "Adaptive"}
            /\ rt_call.max_bytes >= Len(rt_call.data)
            /\ ~(rt_result.compressed.detected = "None" /\ RtLooksCompressed))
        => RtRoundTrips

\* Adaptive compressed a run that begins with 0x78 and it came back, and None
\* stored bytes that no decoder takes for a stream and they came back
C26_Witness ==
    /\ RtDone /\ RtRoundTrips
    /\ \/ /\ rt_call.mode = "Adaptive" /\ rt_result.compressed.detected = "Zlib"
          /\ rt_call.data[1] = ZLIB_MAGIC
       \/ /\ rt_call.mode = "None" /\ rt_call.env.brotli
          /\ rt_call.data = <<11, 210, 0>>

-----------------------------------------------------------------------------
\* what the COSE stage of the decode call returned: the envelope and its status
DecCose ==
    LET bytes == decompress(dec_call.qr_text.compressed,
                            dec_call.options.max_decompressed_bytes, dec_call.env).val.bytes
        item == CborItem(dec_call.qr_text, bytes)
    IN  IF dec_call.op = "decode_with_resolver"
        THEN parse_with_resolver(item, dec_call.resolver).res
        ELSE parse_and_verify(item, dec_call.verifier, dec_call.decryptor).res
\* the decode got past the COSE stage
PastCose == DecDone /\ dec_result.stage \notin {"base45", "decompress", "cose"}
GateCloses ==
    \/ DecCose.val.verification_status = "Failed"
    \/ DecCose.val.verification_status = "Skipped" /\ ~dec_call.options.allow_unverified
\* a payload that the later steps would reject: not a CWT, without claim 169, with a
\* claim 169 that is no map, or expired at the clock of the call
PayloadIsBad ==
    LET cwt_result == cwt_parse(DecCose.val.payload)
    IN  \/ ~cwt_result.ok
        \/ ~transform(cwt_result.val.claim_169, FALSE).ok
        \/ /\ dec_call.options.validate_timestamps
           /\ ~ValidateTimestamps(cwt_result.val.meta, dec_call.options, dec_call.env).ok

\* C27: the verification gate is evaluated before the payload is interpreted: if the
\* envelope status is Failed, or Skipped with allow_unverified = false, decode
\* returns SignatureInvalid regardless of the payload, even when the payload is not a
\* valid CWT, lacks claim 169, or carries an expired exp.
C27_GateBeforePayload ==
    (PastCose /\ GateCloses) => (DecErr("SignatureInvalid") /\ dec_result.stage = "gate")

\* a failed signature over bytes that are no CWT, and a skipped verification of an
\* expired credential
C27_Witness ==
    /\ PastCose /\ GateCloses /\ PayloadIsBad /\ DecErr("SignatureInvalid")
    /\ \/ DecCose.val.verification_status = "Failed" /\ DecCose.val.payload = RawBytes(1)
       \/ /\ DecCose.val.verification_status = "Skipped"
          /\ DecCose.val.payload.k = "cwt"
          /\ DecCose.val.payload.body.meta.expires_at = Some(5)

\* the calls of the trace after new, without the builder calls that returned an
\* error
JniCallsNotFailed == SelectSeq(Tail(jni_trace), LAMBDA call :
                         call.op = "execute" \/ call.res.ok)

\* C29: a builder call that returns an error puts the decoder back: every later
\* builder call and execute() operates on the configuration accumulated before the
\* failed call, returning what it returns when the failed call is not made at all,
\* and does not fail with "decoder already consumed" because of it.
C29_FailedBuilderCallPutsDecoderBack ==
    LET replay == JniReplay(Some(Decoder_new(jni_trace[1].arg[1])), JniCallsNotFailed)
    IN  /\ replay.inner = jni_inner
        /\ \A i \in DOMAIN JniCallsNotFailed :
              /\ replay.outs[i].decoded = JniCallsNotFailed[i].decoded
              /\ replay.outs[i].res.ok = JniCallsNotFailed[i].res.ok
              /\ ~replay.outs[i].res.ok
                 => replay.outs[i].res.err = JniCallsNotFailed[i].res.err

CallsOf(cap) == {i \in 1..Len(cose_result.calls) : cose_result.calls[i].cap = cap}

\* C30: envelope processing recurses at most one level: the decryptor is invoked at
\* most once and the verifier at most once; inside an Encrypt0 the verifier is
\* invoked only after the decryption, on a plaintext that is a COSE_Sign1, and the
\* inner parse makes no second decryption; a plaintext that is itself an Encrypt0
\* is returned raw as the payload, with status Skipped, after that one decryption.
C30_RecursesAtMostOneLevel ==
    CoseDone
    => /\ Cardinality(CallsOf("decrypt")) <= 1
       /\ Cardinality(CallsOf("verify")) <= 1
       /\ Called("decrypt") => TopEncrypt0 /\ cose_result.calls[1].cap = "decrypt"
       /\ TopEncrypt0 /\ Called("verify") => Decrypted /\ IsSign1Bytes(Plaintext)
       /\ NestedSign1 => Len(cose_result.calls) <= 2
       /\ Decrypted /\ IsEncrypt0Bytes(Plaintext)
          => /\ OkStatus("Skipped")
             /\ cose_result.res.val.payload = Plaintext
             /\ Len(cose_result.calls) = 1

\* a key resolver that has a decryptor decrypts an Encrypt0 whose plaintext is a
\* tagged Encrypt0: one decryption, and the plaintext comes back raw
C30_Witness ==
    /\ CoseDone /\ ByResolver /\ Decrypted
    /\ Plaintext.k = "encrypt0" /\ Plaintext.tag = Some(COSE_ENCRYPT0_TAG)
    /\ cose_call.resolver.resolve_verifier.ok
    /\ OkStatus("Skipped")
    /\ cose_result.res.val.payload = Plaintext
    /\ Cardinality(CallsOf("decrypt")) = 1

-----------------------------------------------------------------------------
(* Vocabulary of the claims about threads sharing one JNI decoder          *)

ThreadDone(t) == jni_threads[t].pc = "done"
AllThreadsDone == \A t \in Threads : ThreadDone(t)
Executes == {t \in Threads : jni_threads[t].op = "execute"}
Builders == Threads \ Executes
ThreadObtained(t) == jni_threads[t].op = "execute" /\ jni_threads[t].decoder # None
ThreadDecodingConfig(t) ==
    ThreadDone(t) /\ ~jni_threads[t].res.ok /\ jni_threads[t].res.err.kind = "DecodingConfig"

\* the decoder that execute thread e decoded with carries what builder thread b set
ThreadReflected(b, e) ==
    LET d == Unwrap(jni_threads[e].decoder)
    IN  CASE jni_threads[b].op = "allow_unverified" -> d.options.allow_unverified
          [] jni_threads[b].op = "verify_with_ed25519" ->
                /\ Len(jni_threads[b].arg) = 32
                /\ d.verifier = Some(Ed25519Verifier(jni_threads[b].arg))
          [] jni_threads[b].op = "clock_skew_tolerance" ->
                d.options.clock_skew_tolerance_seconds = jni_threads[b].arg[1]

\* among the execute calls at most one obtains the decoder; it runs a decode and
\* every other one returns DecodingConfig "decoder already consumed"
OneExecuteDecodes ==
    /\ Cardinality({t \in Threads : ThreadObtained(t)}) <= 1
    /\ \A t \in Executes :
          ThreadDone(t)
          => IF ThreadObtained(t) THEN jni_threads[t].decoded
             ELSE ~jni_threads[t].decoded /\ jni_threads[t].res = AlreadyConsumed

\* once all calls have returned: every builder call that ran beside an execute is
\* reflected in the decode, or returned DecodingConfig
BuilderReflectedOrDecodingConfig ==
    AllThreadsDone /\ Executes # {}
    => \A b \in Builders :
          \/ \E e \in Executes : jni_threads[e].decoded /\ ThreadReflected(b, e)
          \/ ThreadDecodingConfig(b)

\* the closure of the call of thread b fails whatever decoder it is given
ThreadArgumentInvalid(b) ==
    ~Closure(jni_threads[b].op, jni_threads[b].arg, Decoder_new(jni_trace[1].arg[1])).ok

\* once all calls have returned: a builder call that returned without error is
\* reflected in the decode, if one ran, and any other builder call returned
\* DecodingConfig or the error of its own argument
BuilderReflectedOrError ==
    AllThreadsDone
    => \A b \in Builders :
          IF jni_threads[b].res.ok
          THEN \A e \in Executes : jni_threads[e].decoded => ThreadReflected(b, e)
          ELSE ThreadDecodingConfig(b) \/ ThreadArgumentInvalid(b)

\* the calls in the order of jni_order, as a program would make them one after
\* the other
ThreadsInOrder == [i \in DOMAIN jni_order |-> jni_threads[jni_order[i]]]

\* once all calls have returned, each has returned what it returns, and inner is
\* left as it is left, when the calls are made one after the other in the order in
\* which they locked inner
CallsTakeEffectInOrder ==
    AllThreadsDone
    => LET replay == JniReplay(Some(Decoder_new(jni_trace[1].arg[1])), ThreadsInOrder)
       IN  /\ Len(jni_order) = NThreads
           /\ replay.inner = jni_inner
           /\ \A i \in DOMAIN jni_order :
                 /\ replay.outs[i].decoded = ThreadsInOrder[i].decoded
                 /\ replay.outs[i].res.ok = ThreadsInOrder[i].res.ok
                 /\ IF replay.outs[i].res.ok
                    THEN replay.outs[i].res.val = ThreadsInOrder[i].res.val
                    ELSE replay.outs[i].res.err = ThreadsInOrder[i].res.err

EveryCallReturns == <>AllThreadsDone

====
